---- MODULE Spec2Model ----
(***************************************************************************)
(* A model of the LSM-Community graph storage engine (lsm-storage crate):  *)
(* the vertex index and its file, the delta logs kept in the external KV   *)
(* under the delta merge operator, the facade operations of LsmCommunity   *)
(* and the read/write lock that guards the vertex index.                   *)
(*                                                                         *)
(* Conventions.  Option<T> is a sequence of length 0 (None) or 1 (Some).   *)
(* Result<T> is a record with a field ok.  Byte strings are sequences of   *)
(* numbers 0..255.  A VertexIndexItem (one u64) is the triple of its bit   *)
(* fields <<bits 63..48, bits 47..16, bits 15..0>>.                        *)
(***************************************************************************)
EXTENDS Integers, Sequences, FiniteSets, TLC

\* ---------------------------------------------------------------- bounds
\* insert_vertex calls in one run
MaxInsert == 2
\* insert_edge / remove_edge calls in one run
MaxEdgeOps == 2
\* times the process stops (close or crash) in one run
MaxStops == 1
\* largest timestamp the clock hands out
MaxTs == 3
\* calls each thread of the concurrent specification makes
MaxCalls == 2

\* ------------------------------------------------- configuration (scaled)
\* options.giant_vertex_boundary (default 128), scaled to the model's graphs
giant_vertex_boundary == 2
\* options.min_bucket_size, passed as giant_community_boundary (default 8 MiB)
giant_community_boundary == 16
\* options.block_size (default 4096)
block_size == 32
\* capacity of the BufWriter in serialize_to_file (8 MiB), in words
BufCapacity == 24
\* DeltaOperation::ENCODED_SIZE
ENCODED_SIZE == 16

None == <<>>
Some(x) == <<x>>
IsSome(o) == Len(o) = 1

Max(a, b) == IF a >= b THEN a ELSE b

\* F applied to the value of x (x is computed once)
Bind(x, F(_)) == CHOOSE r \in {F(v) : v \in {x}} : TRUE

RECURSIVE SumSeq(_)
SumSeq(s) == IF s = <<>> THEN 0 ELSE Head(s) + SumSeq(Tail(s))

RECURSIVE Concat(_)
Concat(ss) == IF ss = <<>> THEN <<>> ELSE Head(ss) \o Concat(Tail(ss))

Range(s) == {s[i] : i \in DOMAIN s}

RECURSIVE SortSet(_)
\* ascending sequence of a finite set of numbers (Vec::sort_unstable of distinct keys)
SortSet(S) ==
  IF S = {} THEN <<>>
  ELSE LET m == CHOOSE x \in S : \A y \in S : x <= y
       IN <<m>> \o SortSet(S \ {m})

\* --------------------------------------------------------- little endian
RECURSIVE ToLE(_, _)
\* n.to_le_bytes() of a k-byte unsigned integer
ToLE(n, k) == IF k = 0 THEN <<>> ELSE <<n % 256>> \o ToLE(n \div 256, k - 1)

RECURSIVE FromLE(_)
\* uN::from_le_bytes
FromLE(b) == IF b = <<>> THEN 0 ELSE b[1] + 256 * FromLE(Tail(b))

\* ------------------------------------------------------------- delta.rs
AddNeighbor == 0
RemoveNeighbor == 1

\* DeltaOperation::new
DeltaOperation(timestamp, op_type, neighbor) ==
  [timestamp |-> timestamp, neighbor |-> neighbor, op_type |-> op_type]

\* DeltaOperation::encode: timestamp u64 | neighbor u32 | op_type u32, little endian
EncodeOp(op) == ToLE(op.timestamp, 8) \o ToLE(op.neighbor, 4) \o ToLE(op.op_type, 4)

\* DeltaOperation::decode
DecodeOp(bytes) ==
  IF Len(bytes) # ENCODED_SIZE THEN [ok |-> FALSE, val |-> None]
  ELSE LET op == [timestamp |-> FromLE(SubSeq(bytes, 1, 8)),
                  neighbor |-> FromLE(SubSeq(bytes, 9, 12)),
                  op_type |-> FromLE(SubSeq(bytes, 13, 16))]
       IN IF op.op_type \notin {AddNeighbor, RemoveNeighbor}
          THEN [ok |-> FALSE, val |-> None]
          ELSE [ok |-> TRUE, val |-> Some(op)]

RECURSIVE encode_batch(_)
\* DeltaOperation::encode_batch
encode_batch(ops) ==
  IF ops = <<>> THEN <<>> ELSE EncodeOp(Head(ops)) \o encode_batch(Tail(ops))

\* DeltaOperation::decode_batch: the chunks of ENCODED_SIZE bytes, in order
decode_batch(bytes) ==
  IF Len(bytes) % ENCODED_SIZE # 0 THEN [ok |-> FALSE, val |-> <<>>]
  ELSE Bind([i \in 1..(Len(bytes) \div ENCODED_SIZE) |->
               DecodeOp(SubSeq(bytes, ENCODED_SIZE * (i - 1) + 1, ENCODED_SIZE * i))],
            LAMBDA d : IF \E i \in DOMAIN d : ~d[i].ok THEN [ok |-> FALSE, val |-> <<>>]
                       ELSE [ok |-> TRUE, val |-> [i \in DOMAIN d |-> d[i].val[1]]])

\* the place of ops[i] once ops is sorted by timestamp
RankByTs(ops, i) ==
  1 + Cardinality({j \in 1..Len(ops) :
                     \/ ops[j].timestamp < ops[i].timestamp
                     \/ ops[j].timestamp = ops[i].timestamp /\ j < i})

\* ops.sort_unstable_by_key(|op| op.timestamp); ops of equal timestamp keep
\* their order here (the code leaves their order open)
SortByTs(ops) ==
  Bind(ops, LAMBDA s : [k \in 1..Len(s) |-> s[CHOOSE i \in 1..Len(s) : RankByTs(s, i) = k]])

\* a from_ops that keeps the ops in the order given
KeepOrder(ops) == ops

\* DeltaLog::from_ops
from_ops(ops) == SortByTs(ops)

\* DeltaLog::encode: count u32 | ops
EncodeLog(ops) == Bind(ops, LAMBDA o : ToLE(Len(o), 4) \o encode_batch(o))

\* DeltaLog::decode
DecodeLog(bytes) ==
  IF Len(bytes) < 4 THEN [ok |-> FALSE, val |-> <<>>]
  ELSE LET count == FromLE(SubSeq(bytes, 1, 4))
       IN IF Len(bytes) # 4 + count * ENCODED_SIZE
          THEN [ok |-> FALSE, val |-> <<>>]
          ELSE decode_batch(SubSeq(bytes, 5, Len(bytes)))

\* a merge that lets an earlier op replace the kept one
Older(op, kept) == op.timestamp < kept.timestamp

\* the comparison of DeltaLog::merge that lets a later op replace the kept one
Newer(op, kept) == op.timestamp > kept.timestamp

\* one round of the loop of DeltaLog::merge over latest_ops
KeepLatest(latest, op) ==
  IF op.neighbor \notin DOMAIN latest THEN latest @@ (op.neighbor :> op)
  ELSE IF Newer(op, latest[op.neighbor]) THEN [latest EXCEPT ![op.neighbor] = op]
  ELSE latest

RECURSIVE LatestOps(_, _)
\* the loop of DeltaLog::merge over latest_ops: FxHashMap<VId, DeltaOperation>
LatestOps(ops, latest) ==
  IF ops = <<>> THEN latest
  ELSE LatestOps(Tail(ops), Bind(latest, LAMBDA m : KeepLatest(m, Head(ops))))

\* DeltaLog::merge
merge(logs) ==
  IF logs = <<>> THEN <<>>
  ELSE IF Len(logs) = 1 THEN logs[1]
  ELSE Bind(LatestOps(Concat(logs), <<>>),
            LAMBDA latest : SortByTs([i \in 1..Cardinality(DOMAIN latest) |->
                                        latest[SortSet(DOMAIN latest)[i]]]))

\* the operands of merge_for_rocksdb, each decoded as a batch into a log
DecodeOperands(operands) ==
  Bind([i \in DOMAIN operands |-> decode_batch(operands[i])],
       LAMBDA d : IF \E i \in DOMAIN d : ~d[i].ok THEN [ok |-> FALSE, val |-> <<>>]
                  ELSE [ok |-> TRUE, val |-> [i \in DOMAIN d |-> from_ops(d[i].val)]])

\* merge_for_rocksdb once base (b) and operands (o) are decoded
MergeDecoded(base, b, o) ==
  IF ~b.ok \/ ~o.ok THEN None
  ELSE Some(EncodeLog(merge((IF IsSome(base) THEN <<b.val>> ELSE <<>>) \o o.val)))

\* DeltaLog::merge_for_rocksdb(base, operands) -> Option<Vec<u8>>
merge_for_rocksdb(base, operands) ==
  Bind(<<IF IsSome(base) THEN DecodeLog(base[1]) ELSE [ok |-> TRUE, val |-> <<>>],
         DecodeOperands(operands)>>,
       LAMBDA d : MergeDecoded(base, d[1], d[2]))

\* DeltaLog::partial_merge_for_rocksdb(operands) -> Option<Vec<u8>>
partial_merge_for_rocksdb(operands) ==
  IF \E i \in DOMAIN operands : Len(operands[i]) % ENCODED_SIZE # 0 THEN None
  ELSE Some(Concat(operands))

\* ------------------------------------------------------- vertex_index.rs
\* VertexIndexItem::GIANT_FLAG (bit 63), as a value of the field bits 63..48
GIANT_FLAG == 32768

\* VertexIndexItem::normal
normal(virtual_comm_id, page_id, offset) == <<virtual_comm_id, page_id, offset>>
\* VertexIndexItem::giant
giant == <<GIANT_FLAG, 0, 0>>
\* VertexIndexItem::is_normal / is_giant
is_normal(item) == (item[1] \div GIANT_FLAG) % 2 = 0
is_giant(item) == (item[1] \div GIANT_FLAG) % 2 # 0
\* VertexIndexItem::set_virtual_comm_id / set_page_id / set_offset
set_virtual_comm_id(item, virtual_comm_id) == <<virtual_comm_id, item[2], item[3]>>
set_page_id(item, page_id) == <<item[1], page_id, item[3]>>
set_offset(item, offset) == <<item[1], item[2], offset>>
\* VertexIndexItem::virtual_comm_id / page_id / offset
virtual_comm_id(item) == item[1] % GIANT_FLAG
page_id(item) == item[2]
offset(item) == item[3]

\* the community index add_giant_vertex stores for the new vertex
NewCommId(community_list) == Len(community_list)

\* an id taken from the length after the push as it is
LengthAsId(vertex_array) == Len(vertex_array)

\* the id add_giant_vertex returns: the length after the push, minus one
new_vertex_id(vertex_array) == Len(vertex_array) - 1

\* add_giant_vertex, first statement: vertex_array.push(giant())
PushVertex(idx) == [idx EXCEPT !.vertex_array = Append(@, giant)]

\* add_giant_vertex, the pushes to community_list and community_map
PushCommunity(idx) ==
  LET list == Append(idx.community_list, <<new_vertex_id(idx.vertex_array)>>)
  IN [idx EXCEPT !.community_list = list,
                 !.community_map = Append(@, NewCommId(list))]

\* VertexIndex::add_giant_vertex: the index after the call (vertex_degree is
\* not extended)
add_giant_vertex(idx) == PushCommunity(PushVertex(idx))

\* ------------------------------------------------------------- graph.rs
\* CsrGraph::get_neighbor_iter
GraphNeighbors(graph, vid) == graph.edge_lists[vid + 1]
\* CsrGraph::get_degree
get_degree(graph, vid) == Len(GraphNeighbors(graph, vid))

RECURSIVE MaxOfSeq(_)
MaxOfSeq(s) == IF s = <<>> THEN 0 ELSE Max(Head(s), MaxOfSeq(Tail(s)))

\* CsrGraph::compute_community_list
compute_community_list(graph) ==
  [c \in 1..(MaxOfSeq(graph.community_map) + 1) |->
     SortSet({v \in 0..(graph.num_vertices - 1) : graph.community_map[v + 1] = c - 1})]

\* a grouping that puts every small community into the current bucket
GroupUnbounded(small, sizes, vc, cur_size, cur_comms, c2v) ==
  [c \in DOMAIN c2v |-> IF (c - 1) \in Range(small) \cup cur_comms THEN vc ELSE c2v[c]]

RECURSIVE GroupSmall(_, _, _, _, _, _)
\* build_from_graph, "Group small communities into buckets": first fit in order
GroupSmall(small, sizes, vc, cur_size, cur_comms, c2v) ==
  IF small = <<>>
  THEN [c \in DOMAIN c2v |-> IF (c - 1) \in cur_comms THEN vc ELSE c2v[c]]
  ELSE LET comm_id == Head(small)
           comm_size == sizes[comm_id + 1]
           flush == cur_size + comm_size > giant_community_boundary /\ cur_comms # {}
       IN IF flush
          THEN GroupSmall(Tail(small), sizes, vc + 1, comm_size, {comm_id},
                 [c \in DOMAIN c2v |-> IF (c - 1) \in cur_comms THEN vc ELSE c2v[c]])
          ELSE GroupSmall(Tail(small), sizes, vc, cur_size + comm_size,
                 cur_comms \cup {comm_id}, c2v)

\* VertexIndex::build_from_graph
build_from_graph(graph) ==
  LET V == 0..(graph.num_vertices - 1)
      community_list == compute_community_list(graph)
      num_communities == Len(community_list)
      IsGiantV(v) == get_degree(graph, v) >= giant_vertex_boundary
      sizes == [c \in 1..num_communities |->
                  SumSeq([i \in 1..Len(community_list[c]) |->
                     IF IsGiantV(community_list[c][i]) THEN 0
                     ELSE (get_degree(graph, community_list[c][i]) + 1) * 4])]
      giant_communities == SortSet({c \in 0..(num_communities - 1) :
                                      sizes[c + 1] >= giant_community_boundary})
      small_communities == SortSet({c \in 0..(num_communities - 1) :
                                      sizes[c + 1] < giant_community_boundary
                                      /\ sizes[c + 1] > 0})
      c2v0 == [c \in 1..num_communities |->
                 IF \E i \in DOMAIN giant_communities : giant_communities[i] = c - 1
                 THEN (CHOOSE i \in DOMAIN giant_communities :
                         giant_communities[i] = c - 1) - 1
                 ELSE 0]
      c2v == GroupSmall(small_communities, sizes, Len(giant_communities), 0, {}, c2v0)
  IN [giant_vertex_boundary |-> giant_vertex_boundary,
      giant_community_boundary |-> giant_community_boundary,
      vertex_array |-> [i \in 1..graph.num_vertices |->
         IF IsGiantV(i - 1) THEN giant
         ELSE set_virtual_comm_id(normal(0, 0, 0), c2v[graph.community_map[i] + 1])],
      community_map |-> graph.community_map,
      community_list |-> community_list,
      vertex_degree |-> [i \in 1..graph.num_vertices |-> get_degree(graph, i - 1)]]

\* --------------------------------------------------- block / bucket build
\* BlockBuilder::estimated_size; a block under construction is a sequence of
\* <<vertex id, neighbor list>>
estimated_size(block) ==
  4 + 8 * Len(block) + 4 * SumSeq([i \in 1..Len(block) |-> Len(block[i][2])])

\* an add_vertex that admits every vertex
add_vertex_unchecked(block, neighbors) == TRUE

\* BlockBuilder::add_vertex: TRUE when the vertex is admitted
add_vertex(block, neighbors) ==
  ~(estimated_size(block) + 8 + 4 * Len(neighbors) > block_size /\ block # <<>>)

RECURSIVE BucketBlocks(_, _, _, _)
\* BucketBuilder::add over the vertex list, finish_block and build: the blocks
\* of the bucket file, in page order
BucketBlocks(vertex_list, graph, block, blocks) ==
  IF vertex_list = <<>>
  THEN IF block = <<>> THEN blocks ELSE Append(blocks, block)
  ELSE LET vid == Head(vertex_list)
           entry == <<vid, GraphNeighbors(graph, vid)>>
       IN IF add_vertex(block, entry[2])
          THEN BucketBlocks(Tail(vertex_list), graph, Append(block, entry), blocks)
          ELSE BucketBlocks(Tail(vertex_list), graph, <<entry>>, Append(blocks, block))

\* the vertex groups of create_with_graph_file: the Normal vertices of each
\* virtual community
VertexGroups(idx) ==
  LET N == {v \in 0..(Len(idx.vertex_array) - 1) : is_normal(idx.vertex_array[v + 1])}
      VC == {virtual_comm_id(idx.vertex_array[v + 1]) : v \in N}
  IN [vc \in VC |-> SortSet({v \in N : virtual_comm_id(idx.vertex_array[v + 1]) = vc})]

\* BucketBuilder::build of every vertex group: the bucket files
BucketFiles(graph, groups) ==
  [vc \in DOMAIN groups |-> BucketBlocks(groups[vc], graph, <<>>, <<>>)]

\* the vertex_meta of v in the blocks of its bucket: <<page_id, offset_inner>>
VertexMeta(blocks, v) ==
  LET p == CHOOSE p \in 1..Len(blocks) : \E o \in 1..Len(blocks[p]) : blocks[p][o][1] = v
  IN <<p - 1, (CHOOSE o \in 1..Len(blocks[p]) : blocks[p][o][1] = v) - 1>>

\* create_with_graph_file, "Update the vertex index": page and offset of
\* every Normal vertex
UpdateIndex(idx, files) ==
  [idx EXCEPT !.vertex_array =
     [i \in 1..Len(idx.vertex_array) |->
        IF is_normal(idx.vertex_array[i])
        THEN set_offset(
               set_page_id(idx.vertex_array[i],
                  VertexMeta(files[virtual_comm_id(idx.vertex_array[i])], i - 1)[1]),
               VertexMeta(files[virtual_comm_id(idx.vertex_array[i])], i - 1)[2])
        ELSE idx.vertex_array[i]]]

\* LsmCommunityStorageState::create_with_graph_file: the bucket files, the
\* updated vertex index and the giant vertex map (each stage computed once)
create_with_graph_file(graph) ==
  LET Built(idx0) ==
        CHOOSE r \in
          {[buckets |-> files,
            vertex_index |-> UpdateIndex(idx0, files),
            giant_vertex_map |->
              [v \in {v \in 0..(graph.num_vertices - 1) : is_giant(idx0.vertex_array[v + 1])}
                 |-> GraphNeighbors(graph, v)]] :
             files \in {BucketFiles(graph, VertexGroups(idx0))}} : TRUE
  IN CHOOSE r \in {Built(idx0) : idx0 \in {build_from_graph(graph)}} : TRUE

\* ------------------------------------------- vertex index file (bincode)
SerVec(s) == <<Len(s)>> \o s

\* bincode::serialize_into(encoder, self): the fields in declaration order
Serialize(idx) ==
  <<idx.giant_vertex_boundary, idx.giant_community_boundary>>
  \o <<Len(idx.vertex_array)>> \o Concat(idx.vertex_array)
  \o SerVec(idx.community_map)
  \o <<Len(idx.community_list)>>
  \o Concat([i \in 1..Len(idx.community_list) |-> SerVec(idx.community_list[i])])
  \o SerVec(idx.vertex_degree)

\* a length-prefixed vector of items of `width` words read at pos
ReadVec(w, pos, width) ==
  IF pos > Len(w) THEN [ok |-> FALSE, val |-> <<>>, next |-> pos]
  ELSE IF pos + w[pos] * width > Len(w) THEN [ok |-> FALSE, val |-> <<>>, next |-> pos]
  ELSE [ok |-> TRUE, val |-> SubSeq(w, pos + 1, pos + w[pos] * width),
        next |-> pos + 1 + w[pos] * width]

RECURSIVE ReadVecs(_, _, _)
ReadVecs(w, pos, n) ==
  IF n = 0 THEN [ok |-> TRUE, val |-> <<>>, next |-> pos]
  ELSE LET first == ReadVec(w, pos, 1)
       IN IF ~first.ok THEN [ok |-> FALSE, val |-> <<>>, next |-> pos]
          ELSE LET rest == ReadVecs(w, first.next, n - 1)
               IN [ok |-> rest.ok, val |-> <<first.val>> \o rest.val, next |-> rest.next]

\* VertexIndex::deserialize_from_file on a file holding the words w: a
\* truncated stream is an error
Deserialize(w) ==
  LET bad == [ok |-> FALSE, val |-> None]
      va == ReadVec(w, 3, 3)
      cm == ReadVec(w, va.next, 1)
      cl == IF cm.ok /\ cm.next <= Len(w) THEN ReadVecs(w, cm.next + 1, w[cm.next])
            ELSE [ok |-> FALSE, val |-> <<>>, next |-> 0]
      vd == ReadVec(w, cl.next, 1)
  IN IF Len(w) < 2 \/ ~va.ok THEN bad
     ELSE IF ~cm.ok \/ ~cl.ok THEN bad
     ELSE IF ~vd.ok THEN bad
     ELSE [ok |-> TRUE, val |-> Some(
            [giant_vertex_boundary |-> w[1],
             giant_community_boundary |-> w[2],
             vertex_array |-> [i \in 1..(Len(va.val) \div 3) |->
                                 SubSeq(va.val, 3 * i - 2, 3 * i)],
             community_map |-> cm.val,
             community_list |-> cl.val,
             vertex_degree |-> vd.val])]

\* ------------------------------------------------------------ the state
VARIABLES
  graph,        \* the input graph file: [num_vertices, edge_lists, community_map]
  handle,       \* "open" while an LsmCommunity handle lives, "down" otherwise
  vertex_index, \* the VertexIndex behind LsmCommunity.vertex_index
  buckets,      \* the bucket files: virtual community id -> blocks
  indexFile,    \* vertex_index.bin.zst: None, or Some(words written so far)
  kvGiant,      \* column family giant_vertices: vertex id -> stored value
  kvDelta,      \* column family deltas: vertex id -> [base, operands]
  save,         \* the insert_vertex in progress: None or Some([words, id])
  lastRet,      \* the last call of the sequential facade and what it returned
  lastCall,     \* per (src, x): the last successful edge call, or "none"
  clock,        \* [last, strict]: last timestamp used, all strictly increasing
  acked,        \* the ids insert_vertex has returned in Ok
  closedView,   \* what the handle showed when it was last closed, if it was
  saveGhost,    \* [prev, target]: the file before the last save and its target
  budget,       \* [ins, edge, stop]: calls made so far
  tpc,          \* per thread: the steps left of its current call
  lock,         \* the RwLock of the vertex index: [writer, readers]
  tloc,         \* per thread: [calls, before, ret, obs]
  issued,       \* the insert_vertex calls that returned Ok, in the order they took effect
  stable,       \* the vertex indexes that existed outside any insertion
  pin,          \* the arguments drawn for the functions applied on their own
  pout,         \* what the function applied returned
  appended,     \* per vertex: the ops handed to append_delta, in call order
  giant_cache,  \* ExternalStorage.giant_cache: vertex id -> neighbor list
  putLog,       \* [active, group]: puts in progress, lists of the latest puts
  disk,         \* bucket files as bytes: virtual community -> pages
  block_cache,  \* LsmCommunityStorageInner.block_cache: <<vc, page>> -> Block
  mem_graph,    \* a MemGraph: [map, cells], vertex id -> cell, cell -> neighbor list
  mem_calls,    \* per thread: its MemGraph call in progress and the calls it made
  mem_log       \* [inserted, seen]: the edges put in Ok, what the readers were given

seqVars == <<graph, handle, vertex_index, buckets, indexFile, kvGiant, kvDelta, save,
             lastRet, lastCall, clock, acked, closedView, saveGhost, budget>>
pureOnly == <<pin, pout>>
kvOnly == <<appended>>
giantOnly == <<giant_cache, putLog>>
cacheOnly == <<disk, block_cache>>
memOnly == <<mem_graph, mem_calls, mem_log>>
auxVars == <<pureOnly, kvOnly, giantOnly, cacheOnly, memOnly>>
concVars == <<tpc, lock, tloc, issued, stable, auxVars>>
vars == <<seqVars, concVars>>

\* ------------------------------------------------------ reads (comm_io.rs)
\* LsmCommunity::vertex_count
vertex_count == Len(vertex_index.vertex_array)

\* LsmCommunity::check_vertex_state: indexes vertex_array directly
check_vertex_state(vertex_id) ==
  IF vertex_id < Len(vertex_index.vertex_array)
  THEN [kind |-> "ok", val |-> Some(is_giant(vertex_index.vertex_array[vertex_id + 1]))]
  ELSE [kind |-> "panic", val |-> None]

\* ExternalStorage::get_giant_vertex (the value is the bincode of the list)
get_giant_vertex(vertex_id) ==
  IF vertex_id \notin DOMAIN kvGiant THEN None
  ELSE LET r == ReadVec(kvGiant[vertex_id], 1, 1)
       IN IF r.ok THEN Some(r.val) ELSE None

\* db.get_cf on the deltas column family: the stored base alone, or the full
\* merge of base and operands
GetDelta(vertex_id) ==
  IF vertex_id \notin DOMAIN kvDelta THEN [ok |-> TRUE, val |-> None]
  ELSE IF kvDelta[vertex_id].operands = <<>>
  THEN [ok |-> TRUE, val |-> kvDelta[vertex_id].base]
  ELSE Bind(merge_for_rocksdb(kvDelta[vertex_id].base, kvDelta[vertex_id].operands),
            LAMBDA m : [ok |-> IsSome(m), val |-> m])

\* read_delta_log on what get_cf returned
DecodeGot(g) ==
  IF ~g.ok THEN [ok |-> FALSE, val |-> None]
  ELSE IF g.val = None THEN [ok |-> TRUE, val |-> None]
  ELSE Bind(DecodeLog(g.val[1]),
            LAMBDA d : IF d.ok THEN [ok |-> TRUE, val |-> Some(d.val)]
                       ELSE [ok |-> FALSE, val |-> None])

\* ExternalStorage::read_delta_log
read_delta_log(vertex_id) == Bind(GetDelta(vertex_id), LAMBDA g : DecodeGot(g))

\* LsmCommunityStorageInner::get_neighbor_iter on a Normal vertex: the block
\* of its page, then the entry at its offset (the mem graph is empty)
get_neighbor_iter(vertex_id) ==
  LET item == vertex_index.vertex_array[vertex_id + 1]
      vc == virtual_comm_id(item)
  IN IF vc \notin DOMAIN buckets THEN [kind |-> "panic", val |-> <<>>]
     ELSE IF page_id(item) >= Len(buckets[vc]) THEN [kind |-> "panic", val |-> <<>>]
     ELSE IF offset(item) >= Len(buckets[vc][page_id(item) + 1])
          THEN [kind |-> "ok", val |-> <<>>]
     ELSE [kind |-> "ok", val |-> buckets[vc][page_id(item) + 1][offset(item) + 1][2]]

\* a read that fetches the delta log whatever with_delta says
DeltaAlways(with_delta) == TRUE

\* the test `if with_delta` of read_neighbor
DeltaWanted(with_delta) == with_delta

\* read_neighbor once the vertex state (st) and the delta log (dl) are read
NeighborsOf(vertex_id, st, dl) ==
  IF st.kind = "panic" THEN [kind |-> "panic", iter |-> None, delta |-> None]
  ELSE IF st.val[1]
  THEN IF ~dl.ok THEN [kind |-> "err", iter |-> None, delta |-> None]
       ELSE [kind |-> "ok", iter |-> get_giant_vertex(vertex_id), delta |-> dl.val]
  ELSE Bind(get_neighbor_iter(vertex_id),
            LAMBDA it : IF it.kind = "panic"
                        THEN [kind |-> "panic", iter |-> None, delta |-> None]
                        ELSE IF ~dl.ok THEN [kind |-> "err", iter |-> None, delta |-> None]
                        ELSE [kind |-> "ok", iter |-> Some(it.val), delta |-> dl.val])

\* LsmCommunity::read_neighbor and read_neighbor_hold_index_vertex:
\* [kind, iter: Option<list>, delta: Option<ops>]
read_neighbor(vertex_id, with_delta) ==
  Bind(<<check_vertex_state(vertex_id),
         IF DeltaWanted(with_delta) /\ vertex_id < vertex_count
         THEN read_delta_log(vertex_id) ELSE [ok |-> TRUE, val |-> None]>>,
       LAMBDA r : NeighborsOf(vertex_id, r[1], r[2]))

RECURSIVE ApplyOps(_, _)
\* the loop of apply_delta_to_neighbors over delta.ops()
ApplyOps(neighbor_state, ops) ==
  IF ops = <<>> THEN neighbor_state
  ELSE ApplyOps(IF Head(ops).op_type = AddNeighbor
                THEN neighbor_state \cup {Head(ops).neighbor}
                ELSE IF Head(ops).op_type = RemoveNeighbor
                THEN neighbor_state \ {Head(ops).neighbor}
                ELSE neighbor_state,
                Tail(ops))

\* LsmCommunity::apply_delta_to_neighbors
apply_delta_to_neighbors(base_neighbors, ops) ==
  IF ops = <<>> THEN base_neighbors
  ELSE SortSet(ApplyOps(Range(base_neighbors), ops))

\* read_out_neighbor_clone on what read_neighbor(vertex_id, true) returned
CloneOut(r) ==
  IF r.kind # "ok" THEN [kind |-> r.kind, val |-> <<>>]
  ELSE IF r.delta = None
  THEN [kind |-> "ok", val |-> IF IsSome(r.iter) THEN r.iter[1] ELSE <<>>]
  ELSE [kind |-> "ok",
        val |-> apply_delta_to_neighbors(IF IsSome(r.iter) THEN r.iter[1] ELSE <<>>,
                                         r.delta[1])]

\* LsmCommunity::read_out_neighbor_clone
read_out_neighbor_clone(vertex_id) ==
  Bind(read_neighbor(vertex_id, TRUE), LAMBDA r : CloneOut(r))

\* LsmCommunity::read_all_edges: the lists of get_all_vertex_id() in id order,
\* each neighbor paired with its source; the first failing read ends it
read_all_edges ==
  Bind([v \in 1..vertex_count |-> read_out_neighbor_clone(v - 1)],
       LAMBDA lists :
         IF \E v \in DOMAIN lists : lists[v].kind # "ok"
         THEN [kind |-> lists[CHOOSE v \in DOMAIN lists :
                                 /\ lists[v].kind # "ok"
                                 /\ \A u \in 1..(v - 1) : lists[u].kind = "ok"].kind,
               val |-> <<>>]
         ELSE [kind |-> "ok",
               val |-> Concat([v \in DOMAIN lists |->
                                 [i \in DOMAIN lists[v].val |->
                                    <<v - 1, lists[v].val[i]>>]])])

\* LsmCommunity::community_search
community_search(vertex_id) ==
  IF vertex_id >= vertex_count THEN [kind |-> "ok", val |-> None]
  ELSE LET comm_id == vertex_index.community_map[vertex_id + 1]
       IN IF comm_id < Len(vertex_index.community_list)
          THEN [kind |-> "ok", val |-> Some(vertex_index.community_list[comm_id + 1])]
          ELSE [kind |-> "panic", val |-> None]

\* ------------------------------------------------- algorithms/bfs.rs, wcc.rs
\* bfs keeps [queue, visited, result]; cap is the number of bits of the
\* visited bitmap, a vertex beyond it is never marked

\* a round that reports the neighbor even when it is already visited
BfsVisitAgain(st, n, next_dist, cap) ==
  IF n \in st.visited THEN [st EXCEPT !.result = Append(@, <<n, next_dist>>)]
  ELSE [queue |-> Append(st.queue, <<n, next_dist>>),
        visited |-> IF n < cap THEN st.visited \cup {n} ELSE st.visited,
        result |-> Append(st.result, <<n, next_dist>>)]

\* one round of `for neighbor_vid in neighbors`
BfsVisitOne(st, n, next_dist, cap) ==
  IF n \in st.visited THEN st
  ELSE [queue |-> Append(st.queue, <<n, next_dist>>),
        visited |-> IF n < cap THEN st.visited \cup {n} ELSE st.visited,
        result |-> Append(st.result, <<n, next_dist>>)]

RECURSIVE BfsVisit(_, _, _, _)
\* the loop `for neighbor_vid in neighbors` of bfs
BfsVisit(neighbors, next_dist, st, cap) ==
  Bind(<<neighbors, st>>,
       LAMBDA a : IF a[1] = <<>> THEN a[2]
                  ELSE BfsVisit(Tail(a[1]), next_dist,
                                BfsVisitOne(a[2], Head(a[1]), next_dist, cap), cap))

\* one round of `while let Some(..) = queue.pop_front()`: [kind, st]
BfsRound(st, r, cap) ==
  IF r.kind = "panic" THEN [kind |-> "panic", st |-> st]
  ELSE IF r.kind = "err" \/ r.iter = None
  THEN [kind |-> "ok", st |-> [st EXCEPT !.queue = Tail(@)]]
  ELSE [kind |-> "ok",
        st |-> BfsVisit(r.iter[1], Head(st.queue)[2] + 1,
                        [st EXCEPT !.queue = Tail(@)], cap)]

RECURSIVE BfsLoop(_, _)
\* the loop `while let Some(..) = queue.pop_front()` of bfs
BfsLoop(st, cap) ==
  Bind(st,
       LAMBDA s : IF s.queue = <<>> THEN [kind |-> "ok", val |-> s.result]
                  ELSE Bind(BfsRound(s, read_neighbor(Head(s.queue)[1], FALSE), cap),
                            LAMBDA nx : IF nx.kind = "panic"
                                        THEN [kind |-> "panic", val |-> <<>>]
                                        ELSE BfsLoop(nx.st, cap)))

\* bfs once the start vertex is read (r)
BfsFrom(start_vertex, r, cap) ==
  IF r.kind # "ok" THEN [kind |-> "panic", val |-> <<>>]
  ELSE IF r.iter = None THEN [kind |-> "ok", val |-> <<>>]
  ELSE BfsLoop([queue |-> <<<<start_vertex, 0>>>>,
                visited |-> IF start_vertex < cap THEN {start_vertex} ELSE {},
                result |-> <<<<start_vertex, 0>>>>], cap)

\* LsmCommunity::bfs
bfs(start_vertex) ==
  Bind(read_neighbor(start_vertex, FALSE),
       LAMBDA r : BfsFrom(start_vertex, r, 64 * ((vertex_count + 63) \div 64)))

RECURSIVE find(_, _)
\* fn find of wcc (path halving): [parent, root]; parent[v + 1] is v's parent
find(parent, x) ==
  Bind(<<parent, x>>,
       LAMBDA a : IF a[1][a[2] + 1] = a[2] THEN [parent |-> a[1], root |-> a[2]]
                  ELSE find([a[1] EXCEPT ![a[2] + 1] = a[1][a[1][a[2] + 1] + 1]],
                            a[1][a[2] + 1]))

\* a union that links the roots only when their ranks differ
UnionUnequalRanks(parent, rank, root_x, root_y) ==
  IF root_x = root_y THEN [parent |-> parent, rank |-> rank]
  ELSE IF rank[root_x + 1] < rank[root_y + 1]
  THEN [parent |-> [parent EXCEPT ![root_x + 1] = root_y], rank |-> rank]
  ELSE IF rank[root_x + 1] > rank[root_y + 1]
  THEN [parent |-> [parent EXCEPT ![root_y + 1] = root_x], rank |-> rank]
  ELSE [parent |-> parent, rank |-> rank]

\* fn union of wcc once both roots are found
UnionRoots(parent, rank, root_x, root_y) ==
  IF root_x = root_y THEN [parent |-> parent, rank |-> rank]
  ELSE IF rank[root_x + 1] < rank[root_y + 1]
  THEN [parent |-> [parent EXCEPT ![root_x + 1] = root_y], rank |-> rank]
  ELSE IF rank[root_x + 1] > rank[root_y + 1]
  THEN [parent |-> [parent EXCEPT ![root_y + 1] = root_x], rank |-> rank]
  ELSE [parent |-> [parent EXCEPT ![root_y + 1] = root_x],
        rank |-> [rank EXCEPT ![root_x + 1] = @ + 1]]

\* fn union of wcc (union by rank): [parent, rank]
union(parent, rank, x, y) ==
  Bind(find(parent, x),
       LAMBDA fx : Bind(find(fx.parent, y),
                        LAMBDA fy : UnionRoots(fy.parent, rank, fx.root, fy.root)))

RECURSIVE UnionAll(_, _)
\* the loop `for (u, v) in all_edges` of wcc over [parent, rank]
UnionAll(all_edges, st) ==
  Bind(<<all_edges, st>>,
       LAMBDA a : IF a[1] = <<>> THEN a[2].parent
                  ELSE UnionAll(Tail(a[1]),
                                union(a[2].parent, a[2].rank, Head(a[1])[1], Head(a[1])[2])))

RECURSIVE FindAll(_, _, _)
\* the final loop of wcc: result[vid] = find(parent, vid)
FindAll(parent, vid, n) ==
  IF vid >= n THEN <<>>
  ELSE Bind(find(parent, vid), LAMBDA f : <<f.root>> \o FindAll(f.parent, vid + 1, n))

\* the edges wcc collects for one vertex read as r, both directions
WccEdges(vid, r) ==
  IF r.kind = "ok" /\ IsSome(r.iter)
  THEN Concat([i \in 1..Len(r.iter[1]) |-> <<<<vid, r.iter[1][i]>>, <<r.iter[1][i], vid>>>>])
  ELSE <<>>

\* wcc once every vertex is read (reads[v + 1] for vertex v)
WccOf(reads, n) ==
  Bind(Concat([i \in 1..n |-> WccEdges(i - 1, reads[i])]),
       LAMBDA all_edges :
         IF \E i \in 1..n : reads[i].kind = "panic"
         THEN [kind |-> "panic", val |-> <<>>]
         ELSE IF \E i \in DOMAIN all_edges : all_edges[i][1] >= n \/ all_edges[i][2] >= n
         THEN [kind |-> "panic", val |-> <<>>]
         ELSE [kind |-> "ok",
               val |-> FindAll(UnionAll(all_edges, [parent |-> [i \in 1..n |-> i - 1],
                                                    rank |-> [i \in 1..n |-> 0]]),
                               0, n)])

\* LsmCommunity::wcc
wcc ==
  Bind([i \in 1..vertex_count |-> read_neighbor(i - 1, FALSE)],
       LAMBDA reads : WccOf(reads, Len(reads)))

\* --------------------------------------------------------- input graphs
\* a graph with one Giant vertex (0), two Normal ones and two communities
GraphMixed ==
  [num_vertices |-> 3, edge_lists |-> <<<<1, 2>>, <<2>>, <<>>>>, community_map |-> <<0, 0, 1>>]
\* a graph whose vertices all reach the giant boundary (and a repeated edge)
GraphAllGiant ==
  [num_vertices |-> 2, edge_lists |-> <<<<1, 1>>, <<0, 1>>>>, community_map |-> <<0, 0>>]
InputGraphs == {GraphMixed, GraphAllGiant}

\* ------------------------------------------------------ open and recovery
\* ExternalStorage::put_giant_vertex for every entry of the giant vertex map
PutGiants(kv, giant_vertex_map) ==
  [v \in DOMAIN kv \cup DOMAIN giant_vertex_map |->
     IF v \in DOMAIN giant_vertex_map THEN SerVec(giant_vertex_map[v]) ELSE kv[v]]

\* LsmCommunityStorageInner::check_recover: a vertex_index.* file and at
\* least one bucket_*.bkt* file
check_recover == IsSome(indexFile) /\ DOMAIN buckets # {}

\* LsmCommunity::open on the workspace as it is on disk: recover (the index
\* is deserialized, the giant vertex map is empty) or build from the graph file
OpenOutcome ==
  IF check_recover
  THEN LET d == Deserialize(indexFile[1])
       IN [ok |-> d.ok, recovered |-> TRUE,
           vertex_index |-> IF d.ok THEN d.val[1] ELSE vertex_index,
           buckets |-> buckets, indexFile |-> indexFile, kvGiant |-> kvGiant]
  ELSE CHOOSE o \in
         {[ok |-> TRUE, recovered |-> FALSE,
           vertex_index |-> c.vertex_index,
           buckets |-> c.buckets,
           indexFile |-> Some(Serialize(c.vertex_index)),
           kvGiant |-> PutGiants(kvGiant, c.giant_vertex_map)] :
            c \in {create_with_graph_file(graph)}} : TRUE

\* what a client sees of an open handle: the count and every out-neighbor list
View ==
  [count |-> vertex_count,
   out |-> [v \in 0..(vertex_count - 1) |-> read_out_neighbor_clone(v)]]

Ret(op, kind, val) == [op |-> op, kind |-> kind, val |-> val]

Threads == {1, 2}
ConcIdle ==
  /\ tpc = [t \in Threads |-> <<>>]
  /\ lock = [writer |-> None, readers |-> [t \in Threads |-> 0]]
  /\ tloc = [t \in Threads |->
               [calls |-> 0, before |-> 0, ret |-> 0, obs |-> None]]
  /\ issued = <<>>

\* the state after LsmCommunity::open has built the workspace from the graph
InitFrom(g) ==
  \E c \in {create_with_graph_file(g)} :
     /\ graph = g
     /\ handle = "open"
     /\ vertex_index = c.vertex_index
     /\ buckets = c.buckets
     /\ indexFile = Some(Serialize(c.vertex_index))
     /\ kvGiant = PutGiants(<<>>, c.giant_vertex_map)
     /\ kvDelta = <<>>
     /\ save = None
     /\ lastRet = Ret("open", "ok", 0)
     /\ lastCall = <<>>
     /\ clock = [last |-> 0, strict |-> TRUE]
     /\ acked = {}
     /\ closedView = None
     /\ saveGhost = [prev |-> Some(Serialize(c.vertex_index)),
                     target |-> Some(Serialize(c.vertex_index))]
     /\ budget = [ins |-> 0, edge |-> 0, stop |-> 0]

\* MemGraph::new and no call on it
MemIdle ==
  /\ mem_graph = [map |-> <<>>, cells |-> <<>>]
  /\ mem_calls = [t \in Threads |-> [calls |-> 0, pc |-> "idle"]]
  /\ mem_log = [inserted |-> {}, seen |-> {}]

\* no function is being applied on its own
AuxIdle ==
  /\ pin = None /\ pout = None
  /\ appended = <<>>
  /\ giant_cache = <<>> /\ putLog = None
  /\ disk = <<>> /\ block_cache = <<>>
  /\ MemIdle

Init ==
  /\ \E g \in InputGraphs : InitFrom(g)
  /\ ConcIdle
  /\ AuxIdle
  /\ stable = {}

\* ------------------------------------------------ insert_vertex (comm_io.rs)
\* insert_vertex up to File::create in serialize_to_file, which fails: the
\* record is appended in memory, the file is untouched, Err is returned
InsertVertexCreateFails ==
  /\ handle = "open" /\ save = None /\ budget.ins < MaxInsert
  /\ vertex_index' = add_giant_vertex(vertex_index)
  /\ lastRet' = Ret("insert_vertex", "err", 0)
  /\ budget' = [budget EXCEPT !.ins = @ + 1]
  /\ UNCHANGED <<graph, handle, buckets, indexFile, kvGiant, kvDelta, save, lastCall,
                 clock, acked, closedView, saveGhost, concVars>>

\* insert_vertex up to File::create, which truncates the file; the encoded
\* index then goes through the BufWriter
InsertVertexBegin ==
  /\ handle = "open" /\ save = None /\ budget.ins < MaxInsert
  /\ vertex_index' = add_giant_vertex(vertex_index)
  /\ indexFile' = Some(<<>>)
  /\ save' = Some([words |-> Serialize(vertex_index'),
                   id |-> new_vertex_id(vertex_index'.vertex_array)])
  /\ saveGhost' = [prev |-> indexFile, target |-> Some(Serialize(vertex_index'))]
  /\ budget' = [budget EXCEPT !.ins = @ + 1]
  /\ UNCHANGED <<graph, handle, buckets, kvGiant, kvDelta, lastRet, lastCall, clock,
                 acked, closedView, concVars>>

\* the words of the save in progress that are not in the file yet
Unwritten == SubSeq(save[1].words, Len(indexFile[1]) + 1, Len(save[1].words))

\* the BufWriter is full and writes its buffer to the file
SaveWrite ==
  /\ handle = "open" /\ IsSome(save) /\ Len(Unwritten) > BufCapacity
  /\ indexFile' = Some(indexFile[1] \o SubSeq(Unwritten, 1, BufCapacity))
  /\ UNCHANGED <<graph, handle, vertex_index, buckets, kvGiant, kvDelta, save, lastRet,
                 lastCall, clock, acked, closedView, saveGhost, budget, concVars>>

\* that write fails: serialize_into returns the error and insert_vertex Err
SaveWriteFails ==
  /\ handle = "open" /\ IsSome(save) /\ Len(Unwritten) > BufCapacity
  /\ save' = None
  /\ lastRet' = Ret("insert_vertex", "err", 0)
  /\ UNCHANGED <<graph, handle, vertex_index, buckets, indexFile, kvGiant, kvDelta,
                 lastCall, clock, acked, closedView, saveGhost, budget, concVars>>

\* encoder.finish() hands back the BufWriter, which is dropped: its last
\* buffer is written by Drop; insert_vertex returns Ok(id)
SaveFinish ==
  /\ handle = "open" /\ IsSome(save) /\ Len(Unwritten) <= BufCapacity
  /\ indexFile' = Some(save[1].words)
  /\ save' = None
  /\ lastRet' = Ret("insert_vertex", "ok", save[1].id)
  /\ acked' = acked \cup {save[1].id}
  /\ UNCHANGED <<graph, handle, vertex_index, buckets, kvGiant, kvDelta, lastCall,
                 clock, closedView, saveGhost, budget, concVars>>

\* the same, but the write in Drop fails: Drop ignores the error, the file
\* keeps what it has, insert_vertex still returns Ok(id)
SaveFinishFlushLost ==
  /\ handle = "open" /\ IsSome(save) /\ Len(Unwritten) <= BufCapacity
  /\ save' = None
  /\ lastRet' = Ret("insert_vertex", "ok", save[1].id)
  /\ acked' = acked \cup {save[1].id}
  /\ UNCHANGED <<graph, handle, vertex_index, buckets, indexFile, kvGiant, kvDelta,
                 lastCall, clock, closedView, saveGhost, budget, concVars>>

\* ------------------------------------- insert_edge / remove_edge (comm_io.rs)
\* db.merge_cf on the deltas column family: one more operand under the key
append_delta(kv, vertex_id, op) ==
  IF vertex_id \in DOMAIN kv
  THEN [kv EXCEPT ![vertex_id].operands = Append(@, EncodeOp(op))]
  ELSE kv @@ (vertex_id :> [base |-> None, operands |-> <<EncodeOp(op)>>])

\* the ids edge calls are made on: a vertex of the input graph (Normal in
\* GraphMixed, Giant in GraphAllGiant), a neighbor of it, and the first id
\* past the input graph (missing until insert_vertex creates it)
SrcIds == {graph.num_vertices - 2, graph.num_vertices}
DstIds == {2, graph.num_vertices}
AllIds == 0..(3 + MaxInsert)
\* what generate_timestamp_micros may return: the clock reading of the last
\* call again, or a later one
Timestamps == {t \in 1..MaxTs : t >= clock.last /\ t <= clock.last + 1}

\* the body shared by insert_edge and remove_edge; timestamp is what
\* generate_timestamp_micros returns.  check_vertex_state panics on an id
\* that is out of range, so the Err branches of the code are never taken.
EdgeCall(name, op_type, src_vertex, dst_vertex, timestamp) ==
  /\ handle = "open" /\ save = None /\ budget.edge < MaxEdgeOps
  /\ budget' = [budget EXCEPT !.edge = @ + 1]
  /\ IF check_vertex_state(src_vertex).kind = "panic"
        \/ check_vertex_state(dst_vertex).kind = "panic"
     THEN /\ lastRet' = Ret(name, "panic", 0)
          /\ UNCHANGED <<kvDelta, lastCall, clock>>
     ELSE /\ kvDelta' = append_delta(kvDelta, src_vertex,
                           DeltaOperation(timestamp, op_type, dst_vertex))
          /\ lastRet' = Ret(name, "ok", 0)
          /\ lastCall' = [p \in DOMAIN lastCall \cup {<<src_vertex, dst_vertex>>} |->
                            IF p = <<src_vertex, dst_vertex>> THEN name ELSE lastCall[p]]
          /\ clock' = [last |-> timestamp,
                       strict |-> clock.strict /\ timestamp > clock.last]
  /\ UNCHANGED <<graph, handle, vertex_index, buckets, indexFile, kvGiant, save, acked,
                 closedView, saveGhost, concVars>>

\* LsmCommunity::insert_edge
InsertEdge ==
  \E src_vertex \in SrcIds, dst_vertex \in DstIds, timestamp \in Timestamps :
    EdgeCall("insert_edge", AddNeighbor, src_vertex, dst_vertex, timestamp)

\* LsmCommunity::remove_edge
RemoveEdge ==
  \E src_vertex \in SrcIds, dst_vertex \in DstIds, timestamp \in Timestamps :
    EdgeCall("remove_edge", RemoveNeighbor, src_vertex, dst_vertex, timestamp)

\* RocksDB folds adjacent operands of a key into one with the partial merge
KvPartialMerge ==
  /\ handle = "open"
  /\ \E v \in DOMAIN kvDelta :
       \E i \in 1..Len(kvDelta[v].operands), j \in 1..Len(kvDelta[v].operands) :
         /\ i < j
         /\ \E m \in {partial_merge_for_rocksdb(SubSeq(kvDelta[v].operands, i, j))} :
              /\ IsSome(m)
              /\ kvDelta' = [kvDelta EXCEPT ![v].operands =
                               SubSeq(@, 1, i - 1) \o <<m[1]>> \o SubSeq(@, j + 1, Len(@))]
  /\ UNCHANGED <<graph, handle, vertex_index, buckets, indexFile, kvGiant, save, lastRet,
                 lastCall, clock, acked, closedView, saveGhost, budget, concVars>>

\* RocksDB folds base and operands of a key into a new base with the full merge
KvFullMerge ==
  /\ handle = "open"
  /\ \E v \in DOMAIN kvDelta :
       /\ kvDelta[v].operands # <<>>
       /\ \E m \in {merge_for_rocksdb(kvDelta[v].base, kvDelta[v].operands)} :
            /\ IsSome(m)
            /\ kvDelta' = [kvDelta EXCEPT ![v] = [base |-> m, operands |-> <<>>]]
  /\ UNCHANGED <<graph, handle, vertex_index, buckets, indexFile, kvGiant, save, lastRet,
                 lastCall, clock, acked, closedView, saveGhost, budget, concVars>>

\* ------------------------------------------------------ close, crash, open
\* the handle is dropped between calls
Close ==
  /\ handle = "open" /\ save = None /\ budget.stop < MaxStops
  /\ handle' = "down"
  /\ closedView' = Some(View)
  /\ lastRet' = Ret("close", "ok", 0)
  /\ budget' = [budget EXCEPT !.stop = @ + 1]
  /\ UNCHANGED <<graph, vertex_index, buckets, indexFile, kvGiant, kvDelta, save,
                 lastCall, clock, acked, saveGhost, concVars>>

\* the process stops while insert_vertex is saving the index
Crash ==
  /\ handle = "open" /\ IsSome(save) /\ budget.stop < MaxStops
  /\ handle' = "down"
  /\ save' = None
  /\ closedView' = None
  /\ lastRet' = Ret("crash", "ok", 0)
  /\ budget' = [budget EXCEPT !.stop = @ + 1]
  /\ UNCHANGED <<graph, vertex_index, buckets, indexFile, kvGiant, kvDelta, lastCall,
                 clock, acked, saveGhost, concVars>>

\* LsmCommunity::open on the workspace left on disk
Open ==
  /\ handle = "down"
  /\ \E o \in {OpenOutcome} :
        /\ handle' = IF o.ok THEN "open" ELSE "down"
        /\ vertex_index' = o.vertex_index
        /\ buckets' = o.buckets
        /\ indexFile' = o.indexFile
        /\ kvGiant' = o.kvGiant
        /\ saveGhost' = IF o.recovered THEN saveGhost
                        ELSE [prev |-> o.indexFile, target |-> o.indexFile]
        /\ lastRet' = Ret("open", IF o.ok THEN "ok" ELSE "err", 0)
  /\ UNCHANGED <<graph, kvDelta, save, lastCall, clock, acked, closedView, budget,
                 concVars>>

Next ==
  \/ InsertVertexCreateFails
  \/ InsertVertexBegin
  \/ SaveWrite
  \/ SaveWriteFails
  \/ SaveFinish
  \/ SaveFinishFlushLost
  \/ InsertEdge
  \/ RemoveEdge
  \/ KvPartialMerge
  \/ KvFullMerge
  \/ Close
  \/ Crash
  \/ Open

Spec == Init /\ [][Next]_vars

\* ------------------------------------------ the vertex-index lock, threads
\* Each call is the sequence of its steps on the vertex index: what it does to
\* the RwLock (parking_lot) and where it reads or writes the index.

\* LsmCommunity::vertex_count
vertex_count_steps == <<"lock_shared", "observe", "unlock_shared">>
\* LsmCommunity::check_vertex_state
check_vertex_state_steps == <<"lock_shared", "observe", "unlock_shared">>
\* LsmCommunity::read_neighbor: holds a read guard across check_vertex_state
read_neighbor_steps ==
  <<"lock_shared">> \o check_vertex_state_steps \o <<"observe", "unlock_shared">>
\* LsmCommunity::read_out_neighbor_clone: read_neighbor, then no more locking
read_out_neighbor_clone_steps == read_neighbor_steps
\* LsmCommunity::bfs: holds a read guard across read_neighbor_hold_index_vertex
\* (check_vertex_state) of the start vertex, vertex_count and one loop round
bfs_steps ==
  <<"lock_shared">> \o check_vertex_state_steps \o vertex_count_steps
  \o check_vertex_state_steps \o <<"observe", "unlock_shared">>
\* LsmCommunity::wcc: vertex_count, then a read guard held across
\* read_neighbor_hold_index_vertex (check_vertex_state) of a vertex
wcc_steps ==
  vertex_count_steps \o <<"lock_shared">> \o check_vertex_state_steps
  \o <<"observe", "unlock_shared">>
\* LsmCommunity::community_search: vertex_count, then a read guard
community_search_steps ==
  vertex_count_steps \o <<"lock_shared", "observe", "unlock_shared">>
\* the steps of a variant of insert_vertex that drops the write guard before
\* it saves
insert_vertex_unlocked_save ==
  <<"lock_exclusive", "wait_for_readers", "push_vertex", "push_community",
    "unlock_exclusive", "serialize_to_file">>
\* LsmCommunity::insert_vertex: the write guard lives until the return, which
\* follows the save
insert_vertex_steps ==
  <<"lock_exclusive", "wait_for_readers", "push_vertex", "push_community",
    "serialize_to_file", "unlock_exclusive">>

Calls == {vertex_count_steps, read_neighbor_steps, read_out_neighbor_clone_steps,
          bfs_steps, wcc_steps, community_search_steps, insert_vertex_steps}

At(t, step) == tpc[t] # <<>> /\ Head(tpc[t]) = step
Advance(t) == tpc' = [tpc EXCEPT ![t] = Tail(@)]
concFrame == <<graph, handle, buckets, kvGiant, kvDelta, save, lastRet, lastCall, clock,
               acked, closedView, saveGhost, budget, auxVars>>

\* a thread starts a call
Call(t) ==
  /\ tpc[t] = <<>> /\ tloc[t].calls < MaxCalls
  /\ \E steps \in Calls : tpc' = [tpc EXCEPT ![t] = steps]
  /\ tloc' = [tloc EXCEPT ![t].calls = @ + 1, ![t].obs = None]
  /\ UNCHANGED <<vertex_index, indexFile, concFrame, lock, issued, stable>>

\* RwLock::read: granted unless a writer holds the lock or waits for it
\* (parking_lot lets no new reader pass a waiting writer)
LockShared(t) ==
  /\ At(t, "lock_shared")
  /\ lock.writer = None
  /\ lock' = [lock EXCEPT !.readers[t] = @ + 1]
  /\ Advance(t)
  /\ UNCHANGED <<vertex_index, indexFile, concFrame, tloc, issued, stable>>

\* a read guard is dropped
UnlockShared(t) ==
  /\ At(t, "unlock_shared")
  /\ lock' = [lock EXCEPT !.readers[t] = @ - 1]
  /\ Advance(t)
  /\ UNCHANGED <<vertex_index, indexFile, concFrame, tloc, issued, stable>>

\* the thread reads the index through its guard
Observe(t) ==
  /\ At(t, "observe")
  /\ tloc' = [tloc EXCEPT ![t].obs = Some(vertex_index)]
  /\ Advance(t)
  /\ UNCHANGED <<vertex_index, indexFile, concFrame, lock, issued, stable>>

\* RwLock::write, first half: the writer bit is taken when no writer has it
LockExclusive(t) ==
  /\ At(t, "lock_exclusive")
  /\ lock.writer = None
  /\ lock' = [lock EXCEPT !.writer = Some(t)]
  /\ Advance(t)
  /\ UNCHANGED <<vertex_index, indexFile, concFrame, tloc, issued, stable>>

\* RwLock::write, second half: the writer waits until every reader has left
WaitForReaders(t) ==
  /\ At(t, "wait_for_readers")
  /\ \A u \in Threads : lock.readers[u] = 0
  /\ Advance(t)
  /\ UNCHANGED <<vertex_index, indexFile, concFrame, lock, tloc, issued, stable>>

\* add_giant_vertex: vertex_array.push and the id computed from its length
PushVertexStep(t) ==
  /\ At(t, "push_vertex")
  /\ vertex_index' = PushVertex(vertex_index)
  /\ tloc' = [tloc EXCEPT ![t].before = Len(vertex_index.vertex_array),
                          ![t].ret = new_vertex_id(vertex_index'.vertex_array)]
  /\ Advance(t)
  /\ UNCHANGED <<indexFile, concFrame, lock, issued, stable>>

\* add_giant_vertex: the community pushes
PushCommunityStep(t) ==
  /\ At(t, "push_community")
  /\ vertex_index' = PushCommunity(vertex_index)
  /\ Advance(t)
  /\ UNCHANGED <<indexFile, concFrame, lock, tloc, issued, stable>>

\* serialize_to_file as one step: the file is complete, or an error leaves
\* it truncated; its result is the result of insert_vertex, Ok(id) or Err
SerializeStep(t) ==
  /\ At(t, "serialize_to_file")
  /\ \E ok \in BOOLEAN :
       /\ indexFile' = IF ok THEN Some(Serialize(vertex_index)) ELSE Some(<<>>)
       /\ issued' = IF ok
                    THEN Append(issued, [id |-> tloc[t].ret, before |-> tloc[t].before,
                                         after |-> Len(vertex_index.vertex_array)])
                    ELSE issued
  /\ Advance(t)
  /\ UNCHANGED <<vertex_index, concFrame, lock, tloc, stable>>

\* the write guard is dropped
UnlockExclusive(t) ==
  /\ At(t, "unlock_exclusive")
  /\ lock' = [lock EXCEPT !.writer = None]
  /\ stable' = stable \cup {vertex_index}
  /\ Advance(t)
  /\ UNCHANGED <<vertex_index, indexFile, concFrame, tloc, issued>>

\* the steps of a call in progress
Step(t) ==
  \/ LockShared(t)
  \/ UnlockShared(t)
  \/ Observe(t)
  \/ LockExclusive(t)
  \/ WaitForReaders(t)
  \/ PushVertexStep(t)
  \/ PushCommunityStep(t)
  \/ SerializeStep(t)
  \/ UnlockExclusive(t)

ConcInit ==
  /\ InitFrom(GraphMixed)
  /\ ConcIdle
  /\ AuxIdle
  /\ stable = {vertex_index}

ConcNext == \E t \in Threads : Call(t) \/ Step(t)

ConcSpec == ConcInit /\ [][ConcNext]_vars

\* ------------------------------------------- DeltaLog merges on their own
\* ops in all the logs and operands of one merge
MaxMergeOps == 3

\* the ops a log or an operand may hold: two neighbors, either kind, any
\* timestamp of the clock
MergeOpSet ==
  {DeltaOperation(t, ty, n) : t \in 1..MaxTs, ty \in {AddNeighbor, RemoveNeighbor},
                              n \in {1, 2}}

\* one merge input cut out of the op sequence w: a base log (the first i ops,
\* in any order) when has_base, and k operand batches out of the rest
MergeInput(w, i, j, has_base, k) ==
  [base |-> IF has_base THEN Some(SubSeq(w, 1, i)) ELSE None,
   batches |-> IF k = 0 THEN <<>>
               ELSE IF k = 1 THEN <<SubSeq(w, i + 1, Len(w))>>
               ELSE <<SubSeq(w, i + 1, j), SubSeq(w, j + 1, Len(w))>>]

\* the op sequences the inputs of a merge are cut from
MergeOpSeqs(max_ops) == UNION {[1..m -> MergeOpSet] : m \in 0..max_ops}

\* the logs handed to DeltaLog::merge: the base log, then from_ops of each batch
MergeLogsOf(in) ==
  (IF IsSome(in.base) THEN <<in.base[1]>> ELSE <<>>)
  \o [i \in DOMAIN in.batches |-> from_ops(in.batches[i])]

\* the base value of the key as RocksDB hands it to the merge operator
EncodedBase(in) == IF IsSome(in.base) THEN Some(EncodeLog(in.base[1])) ELSE None

\* the operands of the key: encode_batch of each batch
EncodedOperands(in) == [i \in DOMAIN in.batches |-> encode_batch(in.batches[i])]

PureFrame == <<seqVars, tpc, lock, tloc, issued, stable, pin, kvOnly, giantOnly, cacheOnly, memOnly>>

\* DeltaLog::merge(&logs) on one or more logs
ApplyMerge ==
  /\ IsSome(pin) /\ pout = None
  /\ \E logs \in {MergeLogsOf(pin[1])} :
       /\ Len(logs) >= 1
       /\ pout' = Some([fn |-> "merge", val |-> merge(logs)])
  /\ UNCHANGED PureFrame

\* the full merge callback: merge_for_rocksdb(existing_value, operands)
ApplyFullMerge ==
  /\ IsSome(pin) /\ pout = None
  /\ pout' = Some([fn |-> "merge_for_rocksdb",
                   val |-> merge_for_rocksdb(EncodedBase(pin[1]), EncodedOperands(pin[1]))])
  /\ UNCHANGED PureFrame

\* the partial merge callback on two operands, its output then the only
\* operand of a full merge
ApplyPartialThenFull ==
  /\ IsSome(pin) /\ pout = None
  /\ Len(pin[1].batches) = 2
  /\ \E p \in {partial_merge_for_rocksdb(EncodedOperands(pin[1]))} :
       /\ IsSome(p)
       /\ pout' = Some([fn |-> "partial_then_full",
                        val |-> merge_for_rocksdb(EncodedBase(pin[1]), <<p[1]>>)])
  /\ UNCHANGED PureFrame

MergeInit ==
  /\ InitFrom(GraphMixed)
  /\ ConcIdle
  /\ stable = {}
  /\ \E w \in MergeOpSeqs(MaxMergeOps), i \in 0..MaxMergeOps, j \in 0..MaxMergeOps,
        has_base \in BOOLEAN, k \in 0..2 :
       /\ i <= j /\ j <= Len(w)
       /\ pin = Some(MergeInput(w, i, j, has_base, k))
  /\ pout = None
  /\ appended = <<>>
  /\ giant_cache = <<>> /\ putLog = None
  /\ disk = <<>> /\ block_cache = <<>>
  /\ MemIdle

MergeNext == ApplyMerge \/ ApplyFullMerge \/ ApplyPartialThenFull

MergeSpec == MergeInit /\ [][MergeNext]_vars

\* ------------------------------------- the deltas column family on its own
\* append_delta calls in one run
MaxAppends == 3

\* the vertices appended to: a Giant one (0) and a Normal one (1)
KvVertices == {0, 1}

\* ExternalStorage::append_delta(vertex_id, op) with an op of any kind and a
\* timestamp no earlier op of the vertex carries
AppendDelta ==
  /\ handle = "open"
  /\ SumSeq([i \in 1..2 |-> Len(appended[i - 1])]) < MaxAppends
  /\ \E vertex_id \in KvVertices, op \in MergeOpSet :
       /\ \A i \in DOMAIN appended[vertex_id] :
            appended[vertex_id][i].timestamp # op.timestamp
       /\ kvDelta' = append_delta(kvDelta, vertex_id, op)
       /\ appended' = [appended EXCEPT ![vertex_id] = Append(@, op)]
  /\ UNCHANGED <<graph, handle, vertex_index, buckets, indexFile, kvGiant, save, lastRet,
                 lastCall, clock, acked, closedView, saveGhost, budget,
                 tpc, lock, tloc, issued, stable, pureOnly, giantOnly, cacheOnly, memOnly>>

KvInit ==
  /\ InitFrom(GraphMixed)
  /\ ConcIdle
  /\ stable = {}
  /\ pin = None /\ pout = None
  /\ appended = [v \in KvVertices |-> <<>>]
  /\ giant_cache = <<>> /\ putLog = None
  /\ disk = <<>> /\ block_cache = <<>>
  /\ MemIdle

KvNext == AppendDelta \/ KvPartialMerge \/ KvFullMerge

KvSpec == KvInit /\ [][KvNext]_vars

\* --------------------------------- edge calls on graphs with unsorted lists
\* a graph whose edge lines list the neighbors of a Giant vertex (0) and of a
\* Normal one (1) in descending order
GraphUnsorted ==
  [num_vertices |-> 3, edge_lists |-> <<<<2, 1>>, <<2, 0>>, <<>>>>, community_map |-> <<0, 0, 1>>]

EdgeInit ==
  /\ \E g \in {GraphMixed, GraphUnsorted} : InitFrom(g)
  /\ ConcIdle
  /\ AuxIdle
  /\ stable = {}

EdgeNext == InsertEdge \/ RemoveEdge \/ KvPartialMerge \/ KvFullMerge

EdgeSpec == EdgeInit /\ [][EdgeNext]_vars

\* ------------------------- concurrent put and get of one giant vertex
\* the giant vertex of GraphMixed and the lists callers put for it
GiantVertex ==
  CHOOSE v \in 0..(GraphMixed.num_vertices - 1) :
     get_degree(GraphMixed, v) >= giant_vertex_boundary
GiantLists == {<<2>>, <<2, 1>>}

giantFrame == <<graph, handle, vertex_index, buckets, indexFile, kvDelta, save, lastRet,
                lastCall, clock, acked, closedView, saveGhost, budget,
                lock, issued, stable, pureOnly, kvOnly, cacheOnly, memOnly>>

\* a thread starts put_giant_vertex(GiantVertex, L) or
\* get_giant_vertex(GiantVertex); putLog counts the puts in progress and
\* keeps the lists of the puts since the last moment none was in progress
GiantCall(t) ==
  /\ tpc[t] = <<>>
  /\ tloc[t].calls < MaxCalls
  /\ \/ \E L \in GiantLists :
          /\ tpc' = [tpc EXCEPT ![t] = <<"put_cf", "cache_insert">>]
          /\ tloc' = [tloc EXCEPT ![t] = [calls |-> @.calls + 1, op |-> "put", arg |-> L,
                                          got |-> None, ret |-> None, legit |-> None]]
          /\ putLog' = [active |-> putLog.active + 1,
                        group |-> IF putLog.active = 0 THEN {L}
                                  ELSE putLog.group \cup {L}]
     \/ /\ tpc' = [tpc EXCEPT ![t] = <<"cache_get", "get_cf", "cache_insert">>]
        /\ tloc' = [tloc EXCEPT ![t] = [calls |-> @.calls + 1, op |-> "get", arg |-> <<>>,
                                        got |-> None, ret |-> None, legit |-> None]]
        /\ UNCHANGED putLog
  /\ UNCHANGED <<giantFrame, kvGiant, giant_cache>>

\* put_giant_vertex: db.put_cf of the serialized list
PutCf(t) ==
  /\ At(t, "put_cf") /\ tloc[t].op = "put"
  /\ kvGiant' = [v \in DOMAIN kvGiant \cup {GiantVertex} |->
                   IF v = GiantVertex THEN SerVec(tloc[t].arg) ELSE kvGiant[v]]
  /\ Advance(t)
  /\ UNCHANGED <<giantFrame, tloc, giant_cache, putLog>>

\* put_giant_vertex: giant_cache.insert, then the call returns Ok(())
PutCacheInsert(t) ==
  /\ At(t, "cache_insert") /\ tloc[t].op = "put"
  /\ giant_cache' = [v \in DOMAIN giant_cache \cup {GiantVertex} |->
                       IF v = GiantVertex THEN tloc[t].arg ELSE giant_cache[v]]
  /\ tpc' = [tpc EXCEPT ![t] = <<>>]
  /\ putLog' = [putLog EXCEPT !.active = @ - 1]
  /\ UNCHANGED <<giantFrame, kvGiant, tloc>>

\* what a get returning now has to yield: the list of the last put when no
\* put is in progress (one of several lists when those puts overlapped)
LegitNow == IF putLog.active = 0 THEN Some(putLog.group) ELSE None

\* get_giant_vertex: giant_cache.get hits and the call returns the entry
GetCacheHit(t) ==
  /\ At(t, "cache_get") /\ tloc[t].op = "get"
  /\ GiantVertex \in DOMAIN giant_cache
  /\ tloc' = [tloc EXCEPT ![t].ret = Some(giant_cache[GiantVertex]),
                          ![t].legit = LegitNow]
  /\ tpc' = [tpc EXCEPT ![t] = <<>>]
  /\ UNCHANGED <<giantFrame, kvGiant, giant_cache, putLog>>

\* get_giant_vertex: giant_cache.get misses
GetCacheMiss(t) ==
  /\ At(t, "cache_get") /\ tloc[t].op = "get"
  /\ GiantVertex \notin DOMAIN giant_cache
  /\ Advance(t)
  /\ UNCHANGED <<giantFrame, kvGiant, tloc, giant_cache, putLog>>

\* get_giant_vertex: db.get_cf, decompress and deserialize
GetCf(t) ==
  /\ At(t, "get_cf") /\ tloc[t].op = "get"
  /\ \E g \in {get_giant_vertex(GiantVertex)} :
       IF IsSome(g)
       THEN tloc' = [tloc EXCEPT ![t].got = g] /\ Advance(t)
       ELSE /\ tloc' = [tloc EXCEPT ![t].ret = None, ![t].legit = LegitNow]
            /\ tpc' = [tpc EXCEPT ![t] = <<>>]
  /\ UNCHANGED <<giantFrame, kvGiant, giant_cache, putLog>>

\* get_giant_vertex: giant_cache.insert of the list read from the db, then
\* the call returns it
GetCacheInsert(t) ==
  /\ At(t, "cache_insert") /\ tloc[t].op = "get"
  /\ giant_cache' = [v \in DOMAIN giant_cache \cup {GiantVertex} |->
                       IF v = GiantVertex THEN tloc[t].got[1] ELSE giant_cache[v]]
  /\ tloc' = [tloc EXCEPT ![t].ret = tloc[t].got, ![t].legit = LegitNow]
  /\ tpc' = [tpc EXCEPT ![t] = <<>>]
  /\ UNCHANGED <<giantFrame, kvGiant, putLog>>

\* the storage after open: the cache holds the giant vertices of a fresh
\* build (open puts each of them) or is empty (open of a recovered workspace)
GiantInit ==
  /\ InitFrom(GraphMixed)
  /\ tpc = [t \in Threads |-> <<>>]
  /\ lock = [writer |-> None, readers |-> [t \in Threads |-> 0]]
  /\ tloc = [t \in Threads |-> [calls |-> 0, op |-> "none", arg |-> <<>>,
                                got |-> None, ret |-> None, legit |-> None]]
  /\ issued = <<>>
  /\ stable = {}
  /\ pin = None /\ pout = None
  /\ appended = <<>>
  /\ \E recovered \in BOOLEAN :
       giant_cache = IF recovered THEN <<>>
                     ELSE [v \in {GiantVertex} |-> GraphNeighbors(GraphMixed, v)]
  /\ putLog = [active |-> 0, group |-> {GraphNeighbors(GraphMixed, GiantVertex)}]
  /\ disk = <<>> /\ block_cache = <<>>
  /\ MemIdle

GiantNext ==
  \E t \in Threads :
     \/ GiantCall(t)
     \/ PutCf(t)
     \/ PutCacheInsert(t)
     \/ GetCacheHit(t)
     \/ GetCacheMiss(t)
     \/ GetCf(t)
     \/ GetCacheInsert(t)

GiantSpec == GiantInit /\ [][GiantNext]_vars

\* ------------------------------------------ blocks as bytes (block.rs)
Reverse(s) == [i \in 1..Len(s) |-> s[Len(s) + 1 - i]]
\* n.to_be_bytes() of a k-byte unsigned integer
ToBE(n, k) == Reverse(ToLE(n, k))
\* uN::from_be_bytes
FromBE(b) == FromLE(Reverse(b))
\* Vec::resize(new_len, 0)
Resize(data, new_len) == [i \in 1..new_len |-> IF i <= Len(data) THEN data[i] ELSE 0]

\* Block::new: the counts are u16, the assert panics on an oversized block
Block_new(vertex_list, edge_list, bsize) ==
  LET vcount == Len(vertex_list) % 65536
      ecount == Len(edge_list) % 65536
      total_size == 4 + vcount * 8 + ecount * 4
  IN IF ~(bsize >= total_size) THEN [kind |-> "panic", block |-> None]
     ELSE [kind |-> "ok",
           block |-> Some([vertex_count |-> vcount,
                           edge_count |-> ecount,
                           edge_list_offset |-> 4 + vcount * 8,
                           data |-> Resize(
                              ToBE(vcount, 2) \o ToBE(ecount, 2)
                              \o Concat([i \in 1..Len(vertex_list) |->
                                           ToBE(vertex_list[i][1], 4)
                                           \o ToBE(vertex_list[i][2], 4)])
                              \o Concat([i \in 1..Len(edge_list) |-> ToBE(edge_list[i], 4)]),
                              bsize)])]

\* Block::decode: only the header is parsed, the sizes are not validated
Block_decode(data) ==
  IF ~(Len(data) >= 4) THEN [kind |-> "panic", block |-> None]
  ELSE [kind |-> "ok",
        block |-> Some([vertex_count |-> FromBE(SubSeq(data, 1, 2)),
                        edge_count |-> FromBE(SubSeq(data, 3, 4)),
                        edge_list_offset |-> 4 + FromBE(SubSeq(data, 1, 2)) * 8,
                        data |-> data])]

\* u32::from_be_bytes([data[at], .., data[at + 3]]): None when the index is
\* out of bounds (the slice index panics)
read_u32(data, at) ==
  IF at + 4 > Len(data) THEN None ELSE Some(FromBE(SubSeq(data, at + 1, at + 4)))

\* NeighborIterator::new and GlobalNeighborIterator::new: start and end index
\* of the vertex at index, [kind, state: Option<<start, end>>]
block_iter_state(block, index) ==
  IF index >= block.vertex_count THEN [kind |-> "ok", state |-> None]
  ELSE LET vertex_offset == 4 + index * 8
           start_index == read_u32(block.data, vertex_offset + 4)
           end_index == IF index + 1 < block.vertex_count
                        THEN read_u32(block.data, vertex_offset + 8 + 4)
                        ELSE Some(block.edge_count)
       IN IF start_index = None \/ end_index = None
          THEN [kind |-> "panic", state |-> None]
          ELSE [kind |-> "ok", state |-> Some(<<start_index[1], end_index[1]>>)]

RECURSIVE block_iter_collect(_, _, _)
\* Iterator::next of NeighborIterator and GlobalNeighborIterator until None
block_iter_collect(block, current, end) ==
  IF ~(current < end) THEN [kind |-> "ok", val |-> <<>>]
  ELSE Bind(read_u32(block.data, block.edge_list_offset + current * 4),
            LAMBDA vid :
              IF vid = None THEN [kind |-> "panic", val |-> <<>>]
              ELSE Bind(block_iter_collect(block, current + 1, end),
                        LAMBDA rest : [kind |-> rest.kind, val |-> <<vid[1]>> \o rest.val]))

\* Block::get_neighbor_iter(index) collected: [kind, val: Option<list>]
neighbor_iter(block, index) ==
  Bind(block_iter_state(block, index),
       LAMBDA s : IF s.kind = "panic" THEN [kind |-> "panic", val |-> None]
                  ELSE IF s.state = None THEN [kind |-> "ok", val |-> None]
                  ELSE Bind(block_iter_collect(block, s.state[1][1], s.state[1][2]),
                            LAMBDA c : [kind |-> c.kind, val |-> Some(c.val)]))

\* BlockBuilder::build on the vertices added so far
build(block) ==
  IF block = <<>> THEN [kind |-> "panic", block |-> None]
  ELSE Block_new([i \in 1..Len(block) |->
                    <<block[i][1], SumSeq([j \in 1..(i - 1) |-> Len(block[j][2])])>>],
                 Concat([i \in 1..Len(block) |-> block[i][2]]),
                 block_size)

\* -------------------------- reads through the block cache on faulty disks
\* the bytes a fault may overwrite in a page (the low byte of vertex_count,
\* of edge_count and of the first vertex's edge offset) and their new values
CorruptIndexes == {2, 4, 12}
CorruptBytes == {0, 1, 2, 7}

\* the block segment of every bucket file: the encoded blocks in page order
DiskOf(files) ==
  [vc \in DOMAIN files |->
     [p \in 1..Len(files[vc]) |-> build(files[vc][p]).block[1].data]]

\* Bucket::read_block(page_id) on the pages of a bucket file; io_fails says
\* whether file.read returns an error: [kind, block]
read_block(pages, page, io_fails) ==
  LET at == page * block_size
      vertex_meta_offset == Len(pages) * block_size
  IN IF at >= vertex_meta_offset THEN [kind |-> "err", block |-> None]
     ELSE IF io_fails THEN [kind |-> "err", block |-> None]
     ELSE Block_decode(pages[page + 1])

\* a block whose header and vertex offsets fit its data
WellFormed(block) ==
  /\ 4 + block.vertex_count * 8 + block.edge_count * 4 <= Len(block.data)
  /\ \A i \in 0..(block.vertex_count - 1) :
       \E s \in {block_iter_state(block, i)} :
          s.kind = "ok" /\ s.state[1][1] <= s.state[1][2]
                        /\ s.state[1][2] <= block.edge_count

\* get_neighbor_iter, "Cache miss - load from bucket": [kind, block, load];
\* both unwraps panic
LoadBlock(item, io_fails) ==
  IF virtual_comm_id(item) \notin DOMAIN disk
  THEN [kind |-> "panic", block |-> None, load |-> "failed"]
  ELSE Bind(read_block(disk[virtual_comm_id(item)], page_id(item), io_fails),
            LAMBDA r : IF r.kind # "ok"
                       THEN [kind |-> "panic", block |-> None, load |-> "failed"]
                       ELSE [kind |-> "ok", block |-> r.block,
                             load |-> IF WellFormed(r.block[1]) THEN "loaded"
                                      ELSE "malformed"])

\* get_neighbor_iter on what the cache or the bucket gave (b), with the
\* iterator collected as the callers do
CachedNeighbors(item, b) ==
  IF b.kind = "panic" THEN Ret("get_neighbor_iter", "panic", <<>>)
  ELSE Bind(neighbor_iter(b.block[1], offset(item)),
            LAMBDA n : Ret("get_neighbor_iter", n.kind,
                           IF IsSome(n.val) THEN n.val[1] ELSE <<>>))

cacheFrame == <<graph, handle, vertex_index, buckets, indexFile, kvGiant, kvDelta, save,
                lastCall, clock, acked, closedView, saveGhost, budget,
                tpc, lock, tloc, issued, stable, kvOnly, giantOnly, memOnly>>

\* LsmCommunityStorageInner::get_neighbor_iter(vertex_id) of a Normal vertex
\* through the block cache; pout keeps how the block was obtained and the
\* cache as it was before the call
CachedRead ==
  \E vertex_id \in 0..(vertex_count - 1), io_fails \in BOOLEAN :
     /\ is_normal(vertex_index.vertex_array[vertex_id + 1])
     /\ \E item \in {vertex_index.vertex_array[vertex_id + 1]} :
        \E cache_key \in {<<virtual_comm_id(item), page_id(item)>>} :
        \E b \in {IF cache_key \in DOMAIN block_cache
                  THEN [kind |-> "ok", block |-> Some(block_cache[cache_key]),
                        load |-> "hit"]
                  ELSE LoadBlock(item, io_fails)} :
           /\ block_cache' =
                IF b.load \in {"hit", "failed"} THEN block_cache
                ELSE [k \in DOMAIN block_cache \cup {cache_key} |->
                        IF k = cache_key THEN b.block[1] ELSE block_cache[k]]
           /\ lastRet' = CachedNeighbors(item, b)
           /\ pout' = Some([load |-> b.load, key |-> cache_key, before |-> block_cache])
     /\ UNCHANGED <<cacheFrame, pin, disk>>

\* a fault overwrites one byte of one page of a bucket file; pin keeps it
CorruptPage ==
  /\ pin = None
  /\ \E vc \in DOMAIN disk :
     \E p \in 1..Len(disk[vc]), i \in CorruptIndexes, b \in CorruptBytes :
        /\ disk[vc][p][i] # b
        /\ disk' = [disk EXCEPT ![vc][p][i] = b]
        /\ pin' = Some([vc |-> vc, page |-> p - 1, index |-> i, byte |-> b])
  /\ UNCHANGED <<cacheFrame, lastRet, pout, block_cache>>

\* a graph of Normal vertices only, in one community and two pages
GraphNormal ==
  [num_vertices |-> 4, edge_lists |-> <<<<1>>, <<2>>, <<0>>, <<>>>>,
   community_map |-> <<0, 0, 0, 0>>]

CacheInit ==
  /\ \E g \in {GraphMixed, GraphNormal} : InitFrom(g)
  /\ ConcIdle
  /\ stable = {}
  /\ pin = None /\ pout = None
  /\ appended = <<>>
  /\ giant_cache = <<>> /\ putLog = None
  /\ disk = DiskOf(buckets)
  /\ block_cache = <<>>
  /\ MemIdle

CacheNext == CachedRead \/ CorruptPage

CacheSpec == CacheInit /\ [][CacheNext]_vars

\* ------------------------------------- bfs and wcc on loaded graph files
\* the edge lines of one vertex: at most MaxDegree targets, each an existing
\* vertex or the id after the last one (parse_edge checks the source only)
MaxDegree == 2
AlgoVertices == 3
EdgeLines == UNION {[1..d -> 0..AlgoVertices] : d \in 0..MaxDegree}

algoFrame == <<graph, handle, vertex_index, buckets, indexFile, kvGiant, kvDelta, save,
               lastCall, clock, acked, closedView, saveGhost, budget,
               tpc, lock, tloc, issued, stable, pin, kvOnly, giantOnly, cacheOnly, memOnly>>

\* LsmCommunity::bfs(start_vertex) on an existing vertex; pout keeps the call
Bfs ==
  /\ handle = "open"
  /\ \E start_vertex \in 0..(vertex_count - 1) :
     \E r \in {bfs(start_vertex)} :
        /\ lastRet' = Ret("bfs", r.kind, r.val)
        /\ pout' = Some([start_vertex |-> start_vertex])
  /\ UNCHANGED algoFrame

\* LsmCommunity::wcc()
Wcc ==
  /\ handle = "open"
  /\ \E r \in {wcc} :
        /\ lastRet' = Ret("wcc", r.kind, r.val)
        /\ pout' = Some([start_vertex |-> 0])
  /\ UNCHANGED algoFrame

AlgoInit ==
  /\ \E edge_lists \in [1..AlgoVertices -> EdgeLines] :
       InitFrom([num_vertices |-> AlgoVertices, edge_lists |-> edge_lists,
                 community_map |-> [i \in 1..AlgoVertices |->
                                      IF i = AlgoVertices THEN 1 ELSE 0]])
  /\ ConcIdle
  /\ AuxIdle
  /\ stable = {}

AlgoNext == Bfs \/ Wcc

AlgoSpec == AlgoInit /\ [][AlgoNext]_vars

\* ------------------------------------------- one vertex in a BlockBuilder
\* the longest neighbor list handed to add_vertex
MaxNeighbors == 6
NeighborLists(max_len) == UNION {[1..m -> {1, 2}] : m \in 0..max_len}

\* BlockBuilder::add_vertex(vertex_id, neighbors) on an empty builder; the
\* builder holds the vertex when the call returns true
BuilderAddVertex ==
  /\ IsSome(pin) /\ pout = None
  /\ \E ret \in {add_vertex(<<>>, pin[1].neighbors)} :
       pout' = Some([fn |-> "add_vertex", ret |-> ret,
                     builder |-> IF ret THEN <<<<pin[1].vertex_id, pin[1].neighbors>>>>
                                 ELSE <<>>,
                     built |-> None])
  /\ UNCHANGED PureFrame

\* BlockBuilder::build() after the add_vertex
BuilderBuild ==
  /\ IsSome(pout) /\ pout[1].fn = "add_vertex"
  /\ pout' = Some([fn |-> "build", ret |-> pout[1].ret, builder |-> pout[1].builder,
                   built |-> Some(build(pout[1].builder))])
  /\ UNCHANGED PureFrame

BuilderInit ==
  /\ InitFrom(GraphMixed)
  /\ ConcIdle
  /\ stable = {}
  /\ \E vertex_id \in {0, 1}, neighbors \in NeighborLists(MaxNeighbors) :
       pin = Some([vertex_id |-> vertex_id, neighbors |-> neighbors])
  /\ pout = None
  /\ appended = <<>>
  /\ giant_cache = <<>> /\ putLog = None
  /\ disk = <<>> /\ block_cache = <<>>
  /\ MemIdle

BuilderNext == BuilderAddVertex \/ BuilderBuild

BuilderSpec == BuilderInit /\ [][BuilderNext]_vars

\* ------------------------------------ sequences of calls on a BlockBuilder
\* the number of add_vertex / add_vertex_or_build calls on one builder
MaxBuilderCalls == 3

seqFrame == <<seqVars, tpc, lock, tloc, issued, stable, kvOnly, giantOnly, cacheOnly, memOnly>>

\* BlockBuilder::add_vertex(vertex_id, neighbors) on the builder held in pin;
\* the vertex ids are the call numbers
SeqAddVertex ==
  /\ pout.kind = "ok" /\ pout.calls < MaxBuilderCalls
  /\ \E neighbors \in NeighborLists(MaxNeighbors) :
     \E ret \in {add_vertex(pin[1], neighbors)} :
        /\ pin' = IF ret THEN Some(Append(pin[1], <<pout.calls, neighbors>>)) ELSE pin
        /\ pout' = [calls |-> pout.calls + 1, fn |-> "add_vertex", kind |-> "ok",
                    ret |-> ret, built |-> None]
  /\ UNCHANGED seqFrame

\* BlockBuilder::add_vertex_or_build(vertex_id, neighbors): when the vertex
\* is refused the vertices held are taken and built into a block (Block::new
\* may panic, the builder is empty by then) and the vertex starts a new one
SeqAddVertexOrBuild ==
  /\ pout.kind = "ok" /\ pout.calls < MaxBuilderCalls
  /\ \E neighbors \in NeighborLists(MaxNeighbors) :
       IF add_vertex(pin[1], neighbors)
       THEN /\ pin' = Some(Append(pin[1], <<pout.calls, neighbors>>))
            /\ pout' = [calls |-> pout.calls + 1, fn |-> "add_vertex_or_build",
                        kind |-> "ok", ret |-> TRUE, built |-> None]
       ELSE \E b \in {build(pin[1])} :
              /\ pin' = IF b.kind = "panic" THEN Some(<<>>)
                        ELSE Some(<<<<pout.calls, neighbors>>>>)
              /\ pout' = [calls |-> pout.calls + 1, fn |-> "add_vertex_or_build",
                          kind |-> b.kind, ret |-> FALSE, built |-> b.block]
  /\ UNCHANGED seqFrame

BlockSeqInit ==
  /\ InitFrom(GraphMixed)
  /\ ConcIdle
  /\ stable = {}
  /\ pin = Some(<<>>)
  /\ pout = [calls |-> 0, fn |-> "new", kind |-> "ok", ret |-> TRUE, built |-> None]
  /\ appended = <<>>
  /\ giant_cache = <<>> /\ putLog = None
  /\ disk = <<>> /\ block_cache = <<>>
  /\ MemIdle

BlockSeqNext == SeqAddVertex \/ SeqAddVertexOrBuild

BlockSeqSpec == BlockSeqInit /\ [][BlockSeqNext]_vars

\* ------------------------------------------- one bucket built and reopened
\* the number of (vid, neighbors) pairs added to one BucketBuilder
MaxBucketAdds == 2

\* the pairs added, as a graph: pair i is vertex i - 1 with its neighbors
PairsGraph(lists) ==
  [num_vertices |-> Len(lists), edge_lists |-> lists,
   community_map |-> [i \in 1..Len(lists) |-> 0]]

\* BucketBuilder::add for every pair, then BucketBuilder::build: the blocks
\* built (finish_block panics when BlockBuilder::build does), the pages
\* written and the vertex metas
BucketBuildFile ==
  /\ IsSome(pin) /\ pout = None
  /\ \E blocks \in {BucketBlocks([i \in 1..Len(pin[1]) |-> i - 1],
                                 PairsGraph(pin[1]), <<>>, <<>>)} :
       IF \E p \in 1..Len(blocks) : build(blocks[p]).kind = "panic"
       THEN pout' = Some([stage |-> "build", kind |-> "panic", pages |-> <<>>,
                          metas |-> <<>>, got |-> <<>>])
       ELSE pout' = Some([stage |-> "build", kind |-> "ok",
                          pages |-> [p \in 1..Len(blocks) |->
                                       build(blocks[p]).block[1].data],
                          metas |-> [i \in 1..Len(pin[1]) |-> VertexMeta(blocks, i - 1)],
                          got |-> <<>>])
  /\ UNCHANGED PureFrame

\* the bucket reopened: read_block(meta.page).get_neighbor_clone(meta.offset)
\* for every vertex added
BucketReopenRead ==
  /\ IsSome(pout) /\ pout[1].stage = "build" /\ pout[1].kind = "ok"
  /\ pout' = Some([pout[1] EXCEPT
        !.stage = "read",
        !.got = [i \in 1..Len(pin[1]) |->
                   Bind(read_block(pout[1].pages, pout[1].metas[i][1], FALSE),
                        LAMBDA r : IF r.kind # "ok" THEN [kind |-> r.kind, val |-> None]
                                   ELSE neighbor_iter(r.block[1], pout[1].metas[i][2]))]])
  /\ UNCHANGED PureFrame

BucketInit ==
  /\ InitFrom(GraphMixed)
  /\ ConcIdle
  /\ stable = {}
  /\ \E n \in 1..MaxBucketAdds :
     \E lists \in [1..n -> NeighborLists(MaxNeighbors)] : pin = Some(lists)
  /\ pout = None
  /\ appended = <<>>
  /\ giant_cache = <<>> /\ putLog = None
  /\ disk = <<>> /\ block_cache = <<>>
  /\ MemIdle

BucketNext == BucketBuildFile \/ BucketReopenRead

BucketSpec == BucketInit /\ [][BucketNext]_vars

\* --------------------------------------------- one VertexIndexItem packed
\* the u16 and u32 arguments tried: the ends of the ranges and the value at
\* the flag bit
CommIdArgs == {0, 1, GIANT_FLAG - 1, GIANT_FLAG, 2 * GIANT_FLAG - 1}
PageIdArgs == {0, 1, 65536}
OffsetArgs == {0, 1, 2 * GIANT_FLAG - 1}

\* CacheKey::new: the two fields side by side in a u64
CacheKey_new(vc, page) == <<vc, page>>

\* VertexIndexItem::to_cache_key
to_cache_key(item) ==
  IF is_normal(item) THEN Some(CacheKey_new(virtual_comm_id(item), page_id(item)))
  ELSE None

\* VertexIndexItem::normal(virtual_comm_id, page_id, offset)
ItemNormal ==
  /\ IsSome(pin) /\ pout = None
  /\ pout' = Some([fn |-> "normal", before |-> None,
                   item |-> normal(pin[1].virtual_comm_id, pin[1].page_id,
                                   pin[1].offset)])
  /\ UNCHANGED PureFrame

\* one of set_virtual_comm_id, set_page_id and set_offset on a Normal item
ItemSet ==
  /\ IsSome(pout) /\ pout[1].fn = "normal" /\ is_normal(pout[1].item)
  /\ \/ \E v \in CommIdArgs :
          pout' = Some([fn |-> "set_virtual_comm_id", before |-> Some(pout[1].item),
                        item |-> set_virtual_comm_id(pout[1].item, v)])
     \/ \E v \in PageIdArgs :
          pout' = Some([fn |-> "set_page_id", before |-> Some(pout[1].item),
                        item |-> set_page_id(pout[1].item, v)])
     \/ \E v \in OffsetArgs :
          pout' = Some([fn |-> "set_offset", before |-> Some(pout[1].item),
                        item |-> set_offset(pout[1].item, v)])
  /\ UNCHANGED PureFrame

ItemInit ==
  /\ InitFrom(GraphMixed)
  /\ ConcIdle
  /\ stable = {}
  /\ \E vc \in CommIdArgs, page \in PageIdArgs, off \in OffsetArgs :
       pin = Some([virtual_comm_id |-> vc, page_id |-> page, offset |-> off])
  /\ pout = None
  /\ appended = <<>>
  /\ giant_cache = <<>> /\ putLog = None
  /\ disk = <<>> /\ block_cache = <<>>
  /\ MemIdle

ItemNext == ItemNormal \/ ItemSet

ItemSpec == ItemInit /\ [][ItemNext]_vars

\* ------------------------------ virtual community ids of build_from_graph
\* the inputs of the id assignment: how many communities are giant (up to
\* the first id that needs bit 15) and the byte sizes of the small ones
MaxSmallComms == 3
GiantCommCounts == {0, 1, GIANT_FLAG - 1, GIANT_FLAG}
SmallSizes(max_comms) == UNION {[1..m -> {4, 8, 12}] : m \in 0..max_comms}

\* build_from_graph, "Assign virtual IDs to giant communities": giant
\* community i gets id i, the counter ends at their number
VcommAssignGiant ==
  /\ IsSome(pin) /\ pout = None
  /\ pout' = Some([stage |-> "giant", virtual_comm_id |-> pin[1].giant_communities,
                   small_ids |-> <<>>])
  /\ UNCHANGED PureFrame

\* build_from_graph, "Group small communities into buckets" and "Finalize
\* last bucket": the id of every small community
VcommGroupSmall ==
  /\ IsSome(pout) /\ pout[1].stage = "giant"
  /\ pout' = Some([stage |-> "small", virtual_comm_id |-> pout[1].virtual_comm_id,
                   small_ids |->
                     GroupSmall([i \in 1..Len(pin[1].small_sizes) |-> i - 1],
                                pin[1].small_sizes, pout[1].virtual_comm_id, 0, {},
                                [i \in 1..Len(pin[1].small_sizes) |-> 0])])
  /\ UNCHANGED PureFrame

VcommInit ==
  /\ InitFrom(GraphMixed)
  /\ ConcIdle
  /\ stable = {}
  /\ \E g \in GiantCommCounts, sizes \in SmallSizes(MaxSmallComms) :
       pin = Some([giant_communities |-> g, small_sizes |-> sizes])
  /\ pout = None
  /\ appended = <<>>
  /\ giant_cache = <<>> /\ putLog = None
  /\ disk = <<>> /\ block_cache = <<>>
  /\ MemIdle

VcommNext == VcommAssignGiant \/ VcommGroupSmall

VcommSpec == VcommInit /\ [][VcommNext]_vars

\* -------------------------------- build_from_graph on graphs of communities
\* the number of communities of an input graph and the degrees of the
\* vertices of one community: Normal vertices of 4, 8, 12 and 16 bytes in
\* all, or one Giant vertex
MaxComms == 5
CommShapes == {<<0>>, <<1>>, <<1, 0>>, <<1, 1>>, <<2>>}

\* the graph file whose community c (from 0) has the vertices of shapes[c + 1],
\* numbered in community order
ShapeGraph(shapes) ==
  LET degrees == Concat(shapes)
  IN [num_vertices |-> Len(degrees),
      edge_lists |-> [i \in 1..Len(degrees) |-> [k \in 1..degrees[i] |-> 0]],
      community_map |-> Concat([c \in 1..Len(shapes) |->
                                  [j \in 1..Len(shapes[c]) |-> c - 1]])]

\* VertexIndex::build_from_graph on the graph drawn
PartBuild ==
  /\ IsSome(pin) /\ pout = None
  /\ pout' = Some(build_from_graph(pin[1]))
  /\ UNCHANGED PureFrame

PartInit ==
  /\ InitFrom(GraphMixed)
  /\ ConcIdle
  /\ stable = {}
  /\ \E n \in 1..MaxComms : \E shapes \in [1..n -> CommShapes] :
       pin = Some(ShapeGraph(shapes))
  /\ pout = None
  /\ appended = <<>>
  /\ giant_cache = <<>> /\ putLog = None
  /\ disk = <<>> /\ block_cache = <<>>
  /\ MemIdle

PartNext == PartBuild

PartSpec == PartInit /\ [][PartNext]_vars

\* ------------------------------------------ concurrent calls on a MemGraph
\* the calls one thread makes, the vertex ids, and the edge lists handed to
\* put_edge_batch
MaxMemCalls == 2
MemVids == {0, 1}
MemDsts == {1, 2}
MemBatches == {<<>>, <<<<0, 1>>, <<0, 2>>>>, <<<<0, 1>>, <<1, 2>>>>}

memFrame == <<seqVars, tpc, lock, tloc, issued, stable, pureOnly, kvOnly, giantOnly,
              cacheOnly>>

\* SkipMap::insert of a fresh Arc<RwLock<VIdList>>: an entry of the same key
\* is replaced
MapInsert(g, vid, list) ==
  [map |-> [k \in DOMAIN g.map \cup {vid} |->
              IF k = vid THEN Len(g.cells) + 1 ELSE g.map[k]],
   cells |-> Append(g.cells, list)]
\* write() on the entry held, then push or extend
CellExtend(g, cell, list) == [g EXCEPT !.cells[cell] = @ \o list]
\* the list the map holds for a vertex
MapList(g, vid) == IF vid \in DOMAIN g.map THEN g.cells[g.map[vid]] ELSE <<>>

CanCall(t) == mem_calls[t].pc = "idle" /\ mem_calls[t].calls < MaxMemCalls
Returned(t) == [calls |-> mem_calls[t].calls + 1, pc |-> "idle"]
Inserted(src, list) == {<<src, list[i]>> : i \in DOMAIN list}

\* put_vertex: contains_key, and the early return
MemPutVertexContains(t) ==
  /\ CanCall(t)
  /\ \E vertex_id \in MemVids :
       mem_calls' = [mem_calls EXCEPT ![t] =
          IF vertex_id \in DOMAIN mem_graph.map THEN Returned(t)
          ELSE [calls |-> @.calls, pc |-> "vertex_insert", vid |-> vertex_id]]
  /\ UNCHANGED <<mem_graph, mem_log, memFrame>>

\* put_vertex: the insert of an empty list
MemPutVertexInsert(t) ==
  /\ mem_calls[t].pc = "vertex_insert"
  /\ mem_graph' = MapInsert(mem_graph, mem_calls[t].vid, <<>>)
  /\ mem_calls' = [mem_calls EXCEPT ![t] = Returned(t)]
  /\ UNCHANGED <<mem_log, memFrame>>

\* put_edge: map.get(&src_id)
MemPutEdgeGet(t) ==
  /\ CanCall(t)
  /\ \E src_id \in MemVids, dst_id \in MemDsts :
       mem_calls' = [mem_calls EXCEPT ![t] =
          IF src_id \in DOMAIN mem_graph.map
          THEN [calls |-> @.calls, pc |-> "edge_push", vid |-> src_id,
                list |-> <<dst_id>>, cell |-> mem_graph.map[src_id]]
          ELSE [calls |-> @.calls, pc |-> "edge_insert", vid |-> src_id,
                list |-> <<dst_id>>]]
  /\ UNCHANGED <<mem_graph, mem_log, memFrame>>

\* put_edge_batch: the grouping by source, and the return on an empty list
MemBatchGroup(t) ==
  /\ CanCall(t)
  /\ \E edge_list \in MemBatches :
       mem_calls' = [mem_calls EXCEPT ![t] =
          IF edge_list = <<>> THEN Returned(t)
          ELSE [calls |-> @.calls, pc |-> "batch_next",
                edges_by_src |->
                   [s \in {edge_list[i][1] : i \in DOMAIN edge_list} |->
                      Bind(SortSet({i \in DOMAIN edge_list : edge_list[i][1] = s}),
                           LAMBDA at : [k \in DOMAIN at |-> edge_list[at[k]][2]])]]]
  /\ UNCHANGED <<mem_graph, mem_log, memFrame>>

\* put_edge_batch: the next source in the HashMap's order and map.get on it,
\* or the return after the last one
MemBatchGet(t) ==
  /\ mem_calls[t].pc = "batch_next"
  /\ \/ /\ DOMAIN mem_calls[t].edges_by_src = {}
        /\ mem_calls' = [mem_calls EXCEPT ![t] = Returned(t)]
     \/ \E src_id \in DOMAIN mem_calls[t].edges_by_src :
          mem_calls' = [mem_calls EXCEPT ![t] =
             [calls |-> @.calls,
              pc |-> IF src_id \in DOMAIN mem_graph.map
                     THEN "batch_extend" ELSE "batch_insert",
              vid |-> src_id,
              list |-> @.edges_by_src[src_id],
              cell |-> IF src_id \in DOMAIN mem_graph.map
                       THEN mem_graph.map[src_id] ELSE 0,
              edges_by_src |-> [s \in DOMAIN @.edges_by_src \ {src_id} |->
                                  @.edges_by_src[s]]]]
  /\ UNCHANGED <<mem_graph, mem_log, memFrame>>

\* what follows a push, an extend or an insert: put_edge returns, the batch
\* goes on
AfterWrite(t) ==
  IF mem_calls[t].pc \in {"edge_push", "edge_insert"} THEN Returned(t)
  ELSE [calls |-> mem_calls[t].calls, pc |-> "batch_next",
        edges_by_src |-> mem_calls[t].edges_by_src]

\* put_edge, put_edge_batch: the source existed, its list is extended under
\* the write lock of the entry found
MemExtend(t) ==
  /\ mem_calls[t].pc \in {"edge_push", "batch_extend"}
  /\ mem_graph' = CellExtend(mem_graph, mem_calls[t].cell, mem_calls[t].list)
  /\ mem_log' = [mem_log EXCEPT
                   !.inserted = @ \cup Inserted(mem_calls[t].vid, mem_calls[t].list)]
  /\ mem_calls' = [mem_calls EXCEPT ![t] = AfterWrite(t)]
  /\ UNCHANGED memFrame

\* put_edge, put_edge_batch: the source did not exist, a new entry is inserted
MemInsert(t) ==
  /\ mem_calls[t].pc \in {"edge_insert", "batch_insert"}
  /\ mem_graph' = MapInsert(mem_graph, mem_calls[t].vid, mem_calls[t].list)
  /\ mem_log' = [mem_log EXCEPT
                   !.inserted = @ \cup Inserted(mem_calls[t].vid, mem_calls[t].list)]
  /\ mem_calls' = [mem_calls EXCEPT ![t] = AfterWrite(t)]
  /\ UNCHANGED memFrame

\* get_neighbor_iter: map.get(&vertex_id), an empty list if there is no entry
MemReadGet(t) ==
  /\ CanCall(t)
  /\ \E vertex_id \in MemVids :
       IF vertex_id \in DOMAIN mem_graph.map
       THEN /\ mem_calls' = [mem_calls EXCEPT ![t] =
                  [calls |-> @.calls, pc |-> "read", vid |-> vertex_id,
                   cell |-> mem_graph.map[vertex_id],
                   at_get |-> MapList(mem_graph, vertex_id)]]
            /\ UNCHANGED mem_log
       ELSE /\ mem_calls' = [mem_calls EXCEPT ![t] = Returned(t)]
            /\ mem_log' = [mem_log EXCEPT !.seen = @ \cup
                  {[vid |-> vertex_id, list |-> <<>>, at_get |-> <<>>,
                    at_read |-> <<>>]}]
  /\ UNCHANGED <<mem_graph, memFrame>>

\* get_neighbor_iter: the clone under the read lock of the entry found
MemReadClone(t) ==
  /\ mem_calls[t].pc = "read"
  /\ mem_log' = [mem_log EXCEPT !.seen = @ \cup
        {[vid |-> mem_calls[t].vid, list |-> mem_graph.cells[mem_calls[t].cell],
          at_get |-> mem_calls[t].at_get,
          at_read |-> MapList(mem_graph, mem_calls[t].vid)]}]
  /\ mem_calls' = [mem_calls EXCEPT ![t] = Returned(t)]
  /\ UNCHANGED <<mem_graph, memFrame>>

MemInit ==
  /\ InitFrom(GraphMixed)
  /\ ConcIdle
  /\ stable = {}
  /\ pin = None /\ pout = None
  /\ appended = <<>>
  /\ giant_cache = <<>> /\ putLog = None
  /\ disk = <<>> /\ block_cache = <<>>
  /\ MemIdle

MemNext ==
  \E t \in Threads :
     \/ MemPutVertexContains(t) \/ MemPutVertexInsert(t)
     \/ MemPutEdgeGet(t)
     \/ MemBatchGroup(t) \/ MemBatchGet(t)
     \/ MemExtend(t) \/ MemInsert(t)
     \/ MemReadGet(t) \/ MemReadClone(t)

MemSpec == MemInit /\ [][MemNext]_vars

\* ================================================================ claims
\* the base neighbor list of src: its edges in the input graph
BaseList(src) ==
  IF src < graph.num_vertices THEN Range(GraphNeighbors(graph, src)) ELSE {}

\* the last successful edge call on (src, x)
LastCallOn(src, x) ==
  IF <<src, x>> \in DOMAIN lastCall THEN lastCall[<<src, x>>] ELSE "none"

\* C1: for every existing vertex src, after successful insert_edge and
\* remove_edge calls with strictly increasing timestamps,
\* read_out_neighbor_clone(src) contains x iff the last call on (src, x) was
\* insert_edge, or no call touched (src, x) and x is in src's base list.
C1_LastCallDecidesNeighbor ==
  (handle = "open" /\ save = None /\ clock.strict) =>
    \A src \in AllIds : src < vertex_count =>
      /\ read_out_neighbor_clone(src).kind = "ok"
      /\ \A x \in AllIds :
           x \in Range(read_out_neighbor_clone(src).val)
             <=> \/ LastCallOn(src, x) = "insert_edge"
                 \/ LastCallOn(src, x) = "none" /\ x \in BaseList(src)

\* two calls with increasing timestamps were made, the last one on a pair
\* removed a base neighbor, another added a neighbor the base list lacks
C1_Witness ==
  /\ handle = "open" /\ save = None /\ clock.strict /\ clock.last >= 2
  /\ \E p \in DOMAIN lastCall :
       /\ lastCall[p] = "remove_edge" /\ p[2] \in BaseList(p[1])
       /\ p[2] \notin Range(read_out_neighbor_clone(p[1]).val)
  /\ \E p \in DOMAIN lastCall :
       /\ lastCall[p] = "insert_edge" /\ p[2] \notin BaseList(p[1])
       /\ p[2] \in Range(read_out_neighbor_clone(p[1]).val)

\* what the reads that ignore deltas return
BaseReads ==
  [neighbors |-> [v \in AllIds |-> read_neighbor(v, FALSE)],
   bfs |-> [s \in AllIds |-> bfs(s)],
   wcc |-> wcc]

\* C2: insert_edge and remove_edge only append a delta op to the delta log of
\* one vertex: every bucket file, the vertex index (in memory and on disk), the
\* giant vertex store and the results of read_neighbor(v, false), bfs(s) and
\* wcc() are the same after the call as before.
C2_EdgeCallsOnlyAppend ==
  [][(InsertEdge \/ RemoveEdge) =>
       /\ buckets' = buckets /\ vertex_index' = vertex_index
       /\ indexFile' = indexFile /\ kvGiant' = kvGiant
       /\ BaseReads' = BaseReads
       /\ \A v \in DOMAIN kvDelta :
            /\ kvDelta'[v].base = kvDelta[v].base
            /\ \/ kvDelta'[v].operands = kvDelta[v].operands
               \/ /\ Len(kvDelta'[v].operands) = Len(kvDelta[v].operands) + 1
                  /\ SubSeq(kvDelta'[v].operands, 1, Len(kvDelta[v].operands))
                       = kvDelta[v].operands
       /\ Cardinality({v \in DOMAIN kvDelta' :
                         v \notin DOMAIN kvDelta \/ kvDelta'[v] # kvDelta[v]}) <= 1]_vars

\* an edge call has succeeded on a vertex that already had a delta log
C2_Witness ==
  /\ lastRet.op \in {"insert_edge", "remove_edge"} /\ lastRet.kind = "ok"
  /\ \E v \in DOMAIN kvDelta : Len(kvDelta[v].operands) >= 2

\* C3: insert_edge(src, dst) and remove_edge(src, dst) return an error,
\* without panicking and without appending a delta op, whenever src or dst is
\* not an existing vertex id.
C3_MissingEndpointIsError ==
  [][\A src \in SrcIds, dst \in DstIds :
       (/\ src >= vertex_count \/ dst >= vertex_count
        /\ \E ts \in Timestamps :
             \/ EdgeCall("insert_edge", AddNeighbor, src, dst, ts)
             \/ EdgeCall("remove_edge", RemoveNeighbor, src, dst, ts))
       => (lastRet'.kind = "err" /\ kvDelta' = kvDelta)]_vars

\* C4: each successful insert_vertex returns the vertex count as it was
\* before the call took effect, the count grows by exactly 1 with it, and the
\* returned ids are pairwise distinct and strictly increasing in the order the
\* calls took effect, under any interleaving of calls on one handle.
C4_IdsAreCountsAndIncrease ==
  \A i \in DOMAIN issued :
    /\ issued[i].id = issued[i].before
    /\ issued[i].after = issued[i].before + 1
    /\ \A j \in DOMAIN issued : i < j => issued[i].id < issued[j].id

\* three calls have returned Ok
C4_Witness == Len(issued) >= 3

\* C5: once insert_vertex has returned Ok(v), opening the workspace as it is
\* on disk (the process may stop at any point) succeeds with
\* vertex_count() > v and v a Giant vertex.
C5_AckedVertexSurvivesReopen ==
  \A v \in acked :
    /\ OpenOutcome.ok
    /\ Len(OpenOutcome.vertex_index.vertex_array) > v
    /\ is_giant(OpenOutcome.vertex_index.vertex_array[v + 1])

\* C6: between calls, community_search(vid) returns for every
\* vid < vertex_count() a list that contains vid, and exactly [vid] for a
\* vertex created by insert_vertex; it does not panic.
C6_CommunityContainsVertex ==
  (handle = "open" /\ save = None) =>
    \A vid \in AllIds : vid < vertex_count =>
      /\ community_search(vid).kind = "ok"
      /\ IsSome(community_search(vid).val)
      /\ vid \in Range(community_search(vid).val[1])
      /\ vid >= graph.num_vertices => community_search(vid).val[1] = <<vid>>

\* C7: every call eventually returns: whenever calls are in progress, one of
\* them can take its next step (no set of threads is blocked for ever on the
\* vertex-index lock).
C7_EveryCallReturns ==
  (\E t \in Threads : tpc[t] # <<>>) =>
    \E t \in Threads : tpc[t] # <<>> /\ ENABLED Step(t)

\* thread t is between the append of its new record and the end of its save
Pending(t) ==
  /\ "serialize_to_file" \in Range(tpc[t])
  /\ "push_vertex" \notin Range(tpc[t])

\* C8: while an insert_vertex is between its append and the end of its save,
\* no thread holds a read guard and no other insert_vertex is in that window;
\* every index a reader observes is one that existed outside any insertion.
C8_InsertExcludesReaders ==
  /\ \A t \in Threads : Pending(t) =>
       /\ \A u \in Threads : lock.readers[u] = 0
       /\ \A u \in Threads \ {t} : ~Pending(u)
  /\ \A t \in Threads : IsSome(tloc[t].obs) => tloc[t].obs[1] \in stable

\* a reader waits at its read() while the other thread is about to save, and
\* the waiting reader has seen the index earlier in the same call
C8_Witness ==
  \E t \in Threads, u \in Threads :
    /\ Pending(t) /\ At(t, "serialize_to_file")
    /\ At(u, "lock_shared") /\ IsSome(tloc[u].obs)

\* C9: the index file is replaced atomically: at every point of a save (where
\* a crash or an I/O error may stop it) the file is the complete previous
\* file or the complete new one.
C9_IndexFileOldOrNew == indexFile \in {saveGhost.prev, saveGhost.target}

\* C10: after the handle is closed, open() on the same workspace succeeds and
\* shows the same vertex_count() and the same read_out_neighbor_clone(v) for
\* every vertex v as before closing.
C10_ReopenShowsSameGraph ==
  (lastRet.op = "open" /\ IsSome(closedView)) =>
    (lastRet.kind = "ok" /\ View = closedView[1])

\* the ops that went into the merge of the input in
MergeInputOps(in) == Range(Concat(MergeLogsOf(in)))

\* the ops of a merge result: a log, or the encoded log a full merge returned
MergedOps(out) ==
  IF out.fn = "merge" THEN out.val
  ELSE IF IsSome(out.val) /\ DecodeLog(out.val[1]).ok THEN DecodeLog(out.val[1]).val
  ELSE <<>>

\* C11: the result of merge over one or more logs, and of a full merge over
\* any base and operands, holds exactly one op for each neighbor of the input
\* ops and none for any other, and that op carries the largest timestamp among
\* the input ops of that neighbor.
C11_MergeKeepsOneLatestPerNeighbor ==
  (IsSome(pout) /\ pout[1].fn \in {"merge", "merge_for_rocksdb"}) =>
    /\ pout[1].fn = "merge_for_rocksdb" => IsSome(pout[1].val)
    /\ \E r \in {MergedOps(pout[1])}, ins \in {MergeInputOps(pin[1])} :
         /\ Range(r) \subseteq ins
         /\ \A n \in {o.neighbor : o \in ins} :
              /\ Cardinality({i \in DOMAIN r : r[i].neighbor = n}) = 1
              /\ \A i \in DOMAIN r : r[i].neighbor = n =>
                   \A o \in ins : o.neighbor = n => o.timestamp <= r[i].timestamp

\* how many times each op occurs in a log (the order among ops of one
\* timestamp is left open by sort_unstable_by_key)
OpCounts(ops) == [o \in Range(ops) |-> Cardinality({i \in DOMAIN ops : ops[i] = o})]

\* C12: for any base and any two op batches a and b, the full merge of the
\* base with the single operand partial_merge([encode_batch(a), encode_batch(b)])
\* returns the same log as the full merge of the base with the two operands
\* encode_batch(a) and encode_batch(b).
C12_PartialThenFullIsFull ==
  (IsSome(pout) /\ pout[1].fn = "partial_then_full") =>
    \E direct \in {merge_for_rocksdb(EncodedBase(pin[1]), EncodedOperands(pin[1]))} :
      /\ IsSome(direct) <=> IsSome(pout[1].val)
      /\ IsSome(direct) =>
           OpCounts(DecodeLog(direct[1]).val) = OpCounts(DecodeLog(pout[1].val[1]).val)

\* what read_out_neighbor_clone(v) returns when the engine has merged nothing:
\* every appended op is an operand of its own and the read runs the full merge
Uncompacted(v) ==
  apply_delta_to_neighbors(
    IF IsSome(read_neighbor(v, FALSE).iter) THEN read_neighbor(v, FALSE).iter[1] ELSE <<>>,
    DecodeLog(merge_for_rocksdb(None, [i \in DOMAIN appended[v] |->
                                         EncodeOp(appended[v][i])])[1]).val)

C14_CloneIsSorted ==
  \A vid \in AllIds : vid < vertex_count =>
    \E r \in {read_out_neighbor_clone(vid)} :
      /\ r.kind = "ok"
      /\ \A i \in DOMAIN r.val, j \in DOMAIN r.val : i < j => r.val[i] <= r.val[j]


\* C15: a get_giant_vertex that returns while no put_giant_vertex is in
\* progress yields the list of the last put that returned (one of the lists
\* of the last puts when those overlapped each other)
C15_GetSeesLastPut ==
  \A t \in Threads :
     (tloc[t].op = "get" /\ tpc[t] = <<>> /\ IsSome(tloc[t].legit))
        => (IsSome(tloc[t].ret) /\ tloc[t].ret[1] \in tloc[t].legit[1])


\* C16: a read whose block load on a cache miss fails or yields a malformed
\* block yields no neighbor list and leaves the block cache as it was
C16_FailedLoadLeavesCache ==
  (IsSome(pout) /\ pout[1].load \in {"failed", "malformed"})
     => (lastRet.kind # "ok" /\ block_cache = pout[1].before)


\* C17: bfs and wcc never panic, whatever the graph file stored
C17_AlgorithmsNeverPanic ==
  lastRet.op \in {"bfs", "wcc"} => lastRet.kind # "panic"

RECURSIVE ReachWithin(_, _)
\* the vertices at most k edges of the base graph away from s
ReachWithin(s, k) ==
  IF k = 0 THEN {s}
  ELSE Bind(ReachWithin(s, k - 1),
            LAMBDA R : R \cup {n \in 0..graph.num_vertices :
                                 \E u \in R : u < graph.num_vertices
                                              /\ n \in Range(graph.edge_lists[u + 1])})
\* the hop count of the shortest path from s to v
HopCount(s, v) == CHOOSE k \in 0..graph.num_vertices : 
                    /\ v \in ReachWithin(s, k)
                    /\ \A j \in 0..(k - 1) : v \notin ReachWithin(s, j)

RECURSIVE Component(_, _)
\* the vertices joined to u by at most k edges taken in either direction
Component(u, k) ==
  IF k = 0 THEN {u}
  ELSE Bind(Component(u, k - 1),
            LAMBDA C : C \cup {v \in 0..(graph.num_vertices - 1) :
                                 \E w \in C : \/ v \in Range(graph.edge_lists[w + 1])
                                              \/ w \in Range(graph.edge_lists[v + 1])})

\* C19: the result of wcc has one entry per vertex, and two vertices carry
\* the same entry exactly when they are weakly connected in the base graph
C19_WccLabelsComponents ==
  (lastRet.op = "wcc" /\ lastRet.kind = "ok")
     => /\ Len(lastRet.val) = vertex_count
        /\ \A u, v \in 0..(vertex_count - 1) :
             (lastRet.val[u + 1] = lastRet.val[v + 1])
                <=> (v \in Component(u, graph.num_vertices))

\* a wcc over a graph with two components, one of them of two vertices
C19_Witness ==
  /\ lastRet.op = "wcc" /\ lastRet.kind = "ok"
  /\ \E u, v, w \in 0..(vertex_count - 1) :
       /\ u # v /\ lastRet.val[u + 1] = lastRet.val[v + 1]
       /\ lastRet.val[w + 1] # lastRet.val[u + 1]


\* C20: add_vertex on an empty builder returns true whatever the length of
\* the neighbor list, and the build() that follows returns a block of that
\* one vertex whose neighbor_iter(0) yields exactly the list
C20_FirstVertexAlwaysBuilds ==
  (IsSome(pout) /\ pout[1].fn = "build")
     => /\ pout[1].ret
        /\ pout[1].built[1].kind = "ok"
        /\ pout[1].built[1].block[1].vertex_count = 1
        /\ neighbor_iter(pout[1].built[1].block[1], 0)
             = [kind |-> "ok", val |-> Some(pin[1].neighbors)]


\* C21: a BlockBuilder holding two or more vertices has an estimated size of
\* at most block_size (only a builder of one vertex may exceed it)
C21_OnlySingleVertexOversized ==
  (IsSome(pin) /\ Len(pin[1]) >= 2) => estimated_size(pin[1]) <= block_size

\* a builder filled to exactly block_size by two vertices, after the first
\* vertex added left it in a block built by add_vertex_or_build
C21_Witness ==
  /\ IsSome(pin) /\ Len(pin[1]) = 2
  /\ estimated_size(pin[1]) = block_size
  /\ pout.calls = MaxBuilderCalls
  /\ pin[1][1][1] # 0


\* C22: whatever pairs were added, the bucket is built, and once reopened
\* the meta of every vertex names an existing page and an offset below that
\* block's vertex_count, where the neighbor list added for it is read back
C22_BucketReadsBackEveryList ==
  /\ (IsSome(pout) /\ pout[1].stage = "build") => pout[1].kind = "ok"
  /\ (IsSome(pout) /\ pout[1].stage = "read") =>
        \A i \in 1..Len(pin[1]) :
           /\ pout[1].metas[i][1] < Len(pout[1].pages)
           /\ pout[1].metas[i][2]
                < Block_decode(pout[1].pages[pout[1].metas[i][1] + 1]).block[1].vertex_count
           /\ pout[1].got[i] = [kind |-> "ok", val |-> Some(pin[1][i])]


\* C23: an item built by normal(virtual_comm_id, page_id, offset) is Normal,
\* its extractors return the three arguments and its cache key is
\* CacheKey::new(virtual_comm_id, page_id); a setter of one field leaves the
\* other two fields as they were
C23_NormalItemKeepsFields ==
  /\ (IsSome(pout) /\ pout[1].fn = "normal") =>
        /\ is_normal(pout[1].item)
        /\ virtual_comm_id(pout[1].item) = pin[1].virtual_comm_id
        /\ page_id(pout[1].item) = pin[1].page_id
        /\ offset(pout[1].item) = pin[1].offset
        /\ to_cache_key(pout[1].item)
             = Some(CacheKey_new(pin[1].virtual_comm_id, pin[1].page_id))
  /\ (IsSome(pout) /\ pout[1].fn = "set_virtual_comm_id") =>
        /\ page_id(pout[1].item) = page_id(pout[1].before[1])
        /\ offset(pout[1].item) = offset(pout[1].before[1])
  /\ (IsSome(pout) /\ pout[1].fn = "set_page_id") =>
        /\ virtual_comm_id(pout[1].item) = virtual_comm_id(pout[1].before[1])
        /\ offset(pout[1].item) = offset(pout[1].before[1])
  /\ (IsSome(pout) /\ pout[1].fn = "set_offset") =>
        /\ virtual_comm_id(pout[1].item) = virtual_comm_id(pout[1].before[1])
        /\ page_id(pout[1].item) = page_id(pout[1].before[1])


\* the ids given to the communities: 0..(giant - 1) and those of the small
AssignedIds ==
  0..(pin[1].giant_communities - 1) \cup Range(pout[1].small_ids)
\* the last id given to a giant community and the ids of the small ones
TopIds ==
  {g - 1 : g \in {pin[1].giant_communities} \ {0}} \cup Range(pout[1].small_ids)

\* C24: the virtual community ids assigned are dense from 0 and at most
\* 32 767, so the record of a vertex of degree below giant_vertex_boundary,
\* set to the id of its community, reads as Normal
C24_VirtualIdsFitFifteenBits ==
  (IsSome(pout) /\ pout[1].stage = "small") =>
     \A id \in TopIds :
        /\ id = 0 \/ (id - 1) \in AssignedIds
        /\ id <= GIANT_FLAG - 1
        /\ is_normal(set_virtual_comm_id(normal(0, 0, 0), id))


\* the Normal vertices of community c in the index built, and their bytes
NormalsOf(c) ==
  {v \in 0..(pin[1].num_vertices - 1) :
     pin[1].community_map[v + 1] = c /\ is_normal(pout[1].vertex_array[v + 1])}
CommBytes(c) ==
  Bind(SortSet(NormalsOf(c)),
       LAMBDA vs : SumSeq([i \in 1..Len(vs) |-> (get_degree(pin[1], vs[i]) + 1) * 4]))
\* the communities with Normal vertices, and the virtual communities used
NonEmptyComms == {c \in Range(pin[1].community_map) : NormalsOf(c) # {}}
VcommsOf(c) == {virtual_comm_id(pout[1].vertex_array[v + 1]) : v \in NormalsOf(c)}
AllVcomms == UNION {VcommsOf(c) : c \in NonEmptyComms}
IsGiantComm(c) == CommBytes(c) >= giant_community_boundary
SumBytes(comms) ==
  Bind(SortSet(comms), LAMBDA cs : SumSeq([i \in 1..Len(cs) |-> CommBytes(cs[i])]))

\* C25: every non-empty community lies in exactly one virtual community, a
\* giant community shares its virtual community with no other, and the small
\* communities of one virtual community total at most
\* giant_community_boundary bytes
C25_PartitionRespectsBoundary ==
  IsSome(pout) =>
     /\ \A c \in NonEmptyComms : Cardinality(VcommsOf(c)) = 1
     /\ \A c, d \in NonEmptyComms :
          (IsGiantComm(c) /\ d # c) => VcommsOf(c) \cap VcommsOf(d) = {}
     /\ \A vc \in AllVcomms :
          SumBytes({c \in NonEmptyComms : ~IsGiantComm(c) /\ vc \in VcommsOf(c)})
             <= giant_community_boundary

\* a partition with a giant community, a virtual community of two small
\* communities and a second virtual community of small ones
C25_Witness ==
  /\ IsSome(pout)
  /\ \E c \in NonEmptyComms : IsGiantComm(c)
  /\ \E c, d, e \in NonEmptyComms :
       /\ c # d /\ ~IsGiantComm(c) /\ ~IsGiantComm(d) /\ ~IsGiantComm(e)
       /\ VcommsOf(c) = VcommsOf(d) /\ VcommsOf(e) # VcommsOf(c)

\* C26: the virtual communities number at most the giant communities plus
\* the small communities' bytes over giant_community_boundary, rounded up,
\* plus one
C26_VcommCountBound ==
  IsSome(pout) =>
     Cardinality(AllVcomms)
        <= Cardinality({c \in NonEmptyComms : IsGiantComm(c)})
           + (SumBytes({c \in NonEmptyComms : ~IsGiantComm(c)})
                + giant_community_boundary - 1) \div giant_community_boundary
           + 1


IsPrefix(a, b) == Len(a) <= Len(b) /\ \A i \in DOMAIN a : a[i] = b[i]

\* C27: once every MemGraph call has returned, each destination put in Ok is
\* in the list the map holds for its source; and what a reader was given
\* extends the list the map held when the reader looked the vertex up and is
\* extended by the list the map held when the reader cloned it
C27_NoEdgeLost ==
  /\ (\A t \in Threads : mem_calls[t].pc = "idle") =>
        \A e \in mem_log.inserted : e[2] \in Range(MapList(mem_graph, e[1]))
  /\ \A o \in mem_log.seen : IsPrefix(o.at_get, o.list) /\ IsPrefix(o.list, o.at_read)


\* C28: between calls, vertex_array, community_map and vertex_degree all have
\* vertex_count() entries and every community_map entry is an index into
\* community_list
C28_IndexArraysAligned ==
  (handle = "open" /\ save = None) =>
     /\ Len(vertex_index.vertex_array) = vertex_count
     /\ Len(vertex_index.community_map) = vertex_count
     /\ Len(vertex_index.vertex_degree) = vertex_count
     /\ \A vid \in 0..(vertex_count - 1) :
          vertex_index.community_map[vid + 1] < Len(vertex_index.community_list)


\* C29: a step in which insert_vertex returns an error leaves vertex_count()
\* at the value it had when the call was made (the id the call was about to
\* return is the count from before the call)
C29_FailedInsertLeavesIndex ==
  [][(/\ lastRet'.op = "insert_vertex" /\ lastRet'.kind = "err"
      /\ budget'.ins # budget.ins \/ (IsSome(save) /\ save' = None))
        => Len(vertex_index'.vertex_array)
             = (IF IsSome(save) THEN save[1].id ELSE vertex_count)]_vars


\* the occurrences of x in a list
Count(list, x) == Cardinality({i \in DOMAIN list : list[i] = x})
\* this step is a successful insert_edge(src, y)
InsertEdgeOk(src, y) ==
  /\ budget'.edge # budget.edge
  /\ lastRet' = Ret("insert_edge", "ok", 0)
  /\ \E timestamp \in 1..MaxTs :
       kvDelta' = append_delta(kvDelta, src, DeltaOperation(timestamp, AddNeighbor, y))

\* C30: a successful insert_edge(src, y) with y not among the neighbors read
\* for src, made with a timestamp later than every earlier one, makes the
\* list of src one longer, keeps the occurrences of every other neighbor and
\* makes read_all_edges one longer
C30_InsertAddsOneNeighbor ==
  [][\A src \in AllIds, y \in AllIds :
       (/\ InsertEdgeOk(src, y) /\ clock'.strict
        /\ read_out_neighbor_clone(src).kind = "ok"
        /\ y \notin Range(read_out_neighbor_clone(src).val)
        /\ read_all_edges.kind = "ok")
         => /\ read_out_neighbor_clone(src)'.kind = "ok"
            /\ Len(read_out_neighbor_clone(src)'.val)
                 = Len(read_out_neighbor_clone(src).val) + 1
            /\ \A x \in AllIds \ {y} :
                 Count(read_out_neighbor_clone(src)'.val, x)
                   = Count(read_out_neighbor_clone(src).val, x)
            /\ read_all_edges'.kind = "ok"
            /\ Len(read_all_edges'.val) = Len(read_all_edges.val) + 1]_vars

====
